---------------------------- MODULE Spec2Model ----------------------------
(***************************************************************************)
(* Model of the import job queue (backend/app/workers/import_worker.py),   *)
(* the batch importer (backend/app/services/excel_import.py) and the       *)
(* statistics aggregation engine (backend/app/services/stats_service.py)   *)
(* of the douyin-web backend.                                              *)
(*                                                                         *)
(* The SQLite store is one record of tables, db.  A session that has       *)
(* executed statements without committing holds its own view of the        *)
(* tables in tx[w] (dirty[w] = TRUE); SQLite admits one writer at a time,  *)
(* so a commit installs that view as db.                                   *)
(***************************************************************************)
EXTENDS Integers, Sequences, FiniteSets, TLC

(***************************************************************************)
(* Bounds of the model.                                                    *)
(***************************************************************************)
\* rows of one uploaded file
MaxRows == 3
\* ExcelImportService.BATCH_SIZE (1000 in the source), scaled to the files
BATCH_SIZE == 2
\* jobs uploaded in one behaviour of the queue specification
NumJobs == 2
\* store errors (a raising db.execute) injected in one behaviour
MaxFaults == 1

\* recalculations counted after a manual rate was set
MaxRuns == 2

\* rows of the orders table the scanner reads
MaxOrders == 3

\* batch_size of batch_check_logistics (500 at logistics.py line 215)
batch_size == 2

\* the query interval in ticks of the clock (35 minutes by default, line 33)
interval_minutes == 1

\* the last tick of the clock
MaxClock == 2
\* max_tasks of _cleanup_old_tasks (15 in the source), scaled to NumJobs
max_tasks == 1

Workers == {"w1", "w2"}
Null == "NULL"
\* None where the value is a string of characters
NullCode == <<"NULL">>

(***************************************************************************)
(* Strings are sequences of characters; Str turns them into keys.          *)
(***************************************************************************)
TAB == "\t"
SP == " "
\* "{" and "}" stand for the full-width parentheses U+FF08 and U+FF09
IsOpen(c) == c \in {"(", "{"}
IsClose(c) == c \in {")", "}"}
IsSpace(c) == c \in {SP, TAB}

RECURSIVE StripLeft(_)
StripLeft(s) ==
    IF s = <<>> THEN s
    ELSE IF IsSpace(Head(s)) THEN StripLeft(Tail(s)) ELSE s

RECURSIVE StripRight(_)
StripRight(s) ==
    IF s = <<>> THEN s
    ELSE IF IsSpace(s[Len(s)]) THEN StripRight(SubSeq(s, 1, Len(s) - 1)) ELSE s

\* str.strip()
Strip(s) == StripRight(StripLeft(s))

RECURSIVE RemoveChar(_, _)
\* str.replace(c, "")
RemoveChar(s, c) ==
    IF s = <<>> THEN <<>>
    ELSE IF Head(s) = c THEN RemoveChar(Tail(s), c)
         ELSE <<Head(s)>> \o RemoveChar(Tail(s), c)

\* index of the first closing parenthesis at or after position i, 0 if none
RECURSIVE FirstClose(_, _)
FirstClose(s, i) ==
    IF i > Len(s) THEN 0
    ELSE IF IsClose(s[i]) THEN i ELSE FirstClose(s, i + 1)

\* _PAREN_CONTENT_RE.sub("", s): leftmost matches of an opening parenthesis,
\* any characters that are no closing parenthesis, a closing parenthesis
RECURSIVE SubParen(_)
SubParen(s) ==
    IF s = <<>> THEN <<>>
    ELSE IF IsOpen(Head(s)) /\ FirstClose(s, 2) # 0
         THEN SubParen(SubSeq(s, FirstClose(s, 2) + 1, Len(s)))
         ELSE <<Head(s)>> \o SubParen(Tail(s))

\* _WHITESPACE_RE.sub(" ", s): every run of whitespace becomes one space
RECURSIVE SubSpace(_)
SubSpace(s) ==
    IF s = <<>> THEN <<>>
    ELSE IF IsSpace(Head(s))
         THEN <<SP>> \o SubSpace(StripLeft(s))
         ELSE <<Head(s)>> \o SubSpace(Tail(s))

clean_sku_code(raw) ==
    IF raw = NullCode THEN <<>>
    ELSE LET s == Strip(RemoveChar(raw, TAB))
         IN  IF s = <<>> \/ s = <<"n", "a", "n">> THEN <<>>
             ELSE Strip(SubSpace(SubParen(s)))


(***************************************************************************)
(* Input files.  A row of an order export and of an after-sale export,     *)
(* reduced to the columns the importer reads.  The status and type texts   *)
(* of the exports are Chinese; they are named here by ASCII tokens.        *)
(***************************************************************************)
OrderIds == {"A", "B"}
AfterSaleIds == {"R1", "R2"}
SkuX == <<"X">>
SkuY == <<"Y">>
RawX == <<"X">>
RawY == <<"Y", "(", "1", ")">>
NoCode == <<>>
SkuCodes == {SkuX, SkuY}

\* the merchant codes of the input rows and what clean_sku_code makes of them
RawCodes == {RawX, RawY, NoCode}
CleanCode == [raw \in RawCodes |-> clean_sku_code(raw)]

\* ExcelImportService.ORDER_STATUS_MAP; any other text maps to 0
ORDER_STATUS_MAP(s) ==
    CASE s = "to_ship" -> 2
      [] s = "shipped" -> 3
      [] s = "done"    -> 5
      [] s = "closed"  -> 4
      [] OTHER         -> 0

\* oid "" is a row without order number; ct = FALSE is a row without
\* submit time; qty = "x" is a quantity int() cannot parse; pay tells
\* whether the payment time lies in the statistics window
OrderRow(oid, st, prov, sku, ct, qty, pay) ==
    [oid |-> oid, st |-> st, prov |-> prov, sku |-> sku, ct |-> ct, qty |-> qty,
     pay |-> pay]

OrderRows ==
    { OrderRow("A", "to_ship", "P1", NoCode, TRUE, "1", FALSE),
      OrderRow("A", "shipped", "P2", RawX, TRUE, "1", TRUE),
      OrderRow("A", "to_ship", "P1", RawY, TRUE, "1", TRUE),
      OrderRow("B", "shipped", "P1", RawX, TRUE, "1", TRUE),
      OrderRow("", "to_ship", "P1", RawX, TRUE, "1", TRUE),
      OrderRow("B", "to_ship", "P1", NoCode, FALSE, "1", TRUE),
      OrderRow("B", "to_ship", "P1", RawY, TRUE, "x", TRUE) }

\* aid "" is a row without after-sale number, oid "" one without order number
AfterSaleRow(aid, oid, sku, ty, st, reason) ==
    [aid |-> aid, oid |-> oid, sku |-> sku, ty |-> ty, st |-> st, reason |-> reason]

AfterSaleRows ==
    { AfterSaleRow("R1", "A", RawX, "return_refund", "refund_success", "bad_quality"),
      AfterSaleRow("R1", "A", RawY, "refund_only", "wait_buyer_return", "bad_quality"),
      AfterSaleRow("R2", "B", RawX, "return_refund", "wait_buyer_return", "no_reason"),
      AfterSaleRow("R2", "A", NoCode, "exchange", "closed", "damaged"),
      AfterSaleRow("", "A", RawX, "return_refund", "refund_success", "no_reason"),
      AfterSaleRow("R2", "", RawX, "refund_only", "refund_success", "no_reason") }

RECURSIVE SeqsUpTo(_, _)
SeqsUpTo(S, n) ==
    IF n = 0 THEN {<<>>}
    ELSE LET shorter == SeqsUpTo(S, n - 1)
         IN  shorter \cup {Append(q, x) : q \in {r \in shorter : Len(r) = n - 1}, x \in S}

(***************************************************************************)
(* The store: one record of tables.  orders and after_sales are keyed by   *)
(* their unique business key (the domain is the set of stored keys),       *)
(* order_skus holds the lines of every order id in insertion order.        *)
(***************************************************************************)
EmptyFn == [x \in {} |-> 0]

EmptyStore ==
    [ jobs       |-> EmptyFn,
      tasks      |-> EmptyFn,
      orders     |-> EmptyFn,
      order_skus |-> [o \in OrderIds |-> <<>>],
      after_sales |-> EmptyFn,
      sku_stats  |-> EmptyFn ]

ZeroStats == [total |-> 0, created |-> 0, updated |-> 0, skipped |-> 0]

\* an import that returns the counters of its last batch
AddStatsLast(a, b) == b

\* import_orders lines 62-65, import_aftersales lines 209-212
AddStats(a, b) ==
    [ total   |-> a.total + b.total,
      created |-> a.created + b.created,
      updated |-> a.updated + b.updated,
      skipped |-> a.skipped + b.skipped ]

RECURSIVE CountIn(_, _)
\* sum(1 for x in ids if x in S)
CountIn(ids, S) ==
    IF ids = <<>> THEN 0
    ELSE (IF Head(ids) \in S THEN 1 ELSE 0) + CountIn(Tail(ids), S)

Range(q) == {q[i] : i \in 1..Len(q)}

(***************************************************************************)
(* ExcelImportService._process_order_batch, statement by statement.        *)
(***************************************************************************)
HasKey(k) == k # "" /\ k # "nan"

RECURSIVE SkippedRows(_)
SkippedRows(rows) ==
    IF rows = <<>> THEN 0
    ELSE (IF HasKey(Head(rows).oid) THEN 0 ELSE 1) + SkippedRows(Tail(rows))

\* order_data of one row (lines 89-102)
OrderData(row) ==
    [ order_id      |-> row.oid,
      order_status  |-> ORDER_STATUS_MAP(row.st),
      create_time   |-> row.ct,
      pay_time      |-> row.pay,
      province_name |-> row.prov ]

RECURSIVE OrderRecords(_)
\* records: the order_data of every row that has an order number
OrderRecords(rows) ==
    IF rows = <<>> THEN <<>>
    ELSE (IF HasKey(Head(rows).oid) THEN <<OrderData(Head(rows))>> ELSE <<>>)
         \o OrderRecords(Tail(rows))

\* the row yields a line: it has a key and a non-empty cleaned code
HasLine(row) == HasKey(row.oid) /\ CleanCode[row.sku] # <<>>

SkuData(row) ==
    [ order_id     |-> row.oid,
      sku_code     |-> CleanCode[row.sku],
      sku_code_raw |-> Strip(RemoveChar(row.sku, TAB)),
      quantity     |-> 1 ]

RECURSIVE SkuRecords(_)
SkuRecords(rows) ==
    IF rows = <<>> THEN <<>>
    ELSE (IF HasLine(Head(rows)) THEN <<SkuData(Head(rows))>> ELSE <<>>)
         \o SkuRecords(Tail(rows))

\* int(row.get(quantity)) raises ValueError while the rows are parsed
OrderParseRaises(rows) ==
    \E i \in 1..Len(rows) : HasLine(rows[i]) /\ rows[i].qty # "1"

\* orders.create_time is NOT NULL: the upsert statement raises IntegrityError
OrderUpsertRaises(records) ==
    \E i \in 1..Len(records) : ~records[i].create_time

\* one row of INSERT ... ON CONFLICT (order_id) DO UPDATE SET <bulk fields>
UpsertOrder(orders, r) ==
    IF r.order_id \in DOMAIN orders
    THEN [orders EXCEPT ![r.order_id].order_status = r.order_status,
                        ![r.order_id].pay_time = r.pay_time,
                        ![r.order_id].province_name = r.province_name]
    ELSE [o \in DOMAIN orders \cup {r.order_id} |->
            IF o = r.order_id
            THEN [ order_status  |-> r.order_status,
                   pay_time      |-> r.pay_time,
                   province_name |-> r.province_name,
                   is_signed     |-> FALSE ]
            ELSE orders[o]]

RECURSIVE UpsertOrders(_, _)
UpsertOrders(orders, records) ==
    IF records = <<>> THEN orders
    ELSE UpsertOrders(UpsertOrder(orders, Head(records)), Tail(records))

RecordIds(records) == [i \in 1..Len(records) |-> records[i].order_id]

\* existing_ids (lines 129-131)
ExistingOrderIds(v, records) == Range(RecordIds(records)) \cap DOMAIN v.orders

\* stats of the batch (lines 81, 123, 157, 158)
OrderBatchStats(v, rows) ==
    LET records == OrderRecords(rows)
        ids == RecordIds(records)
        existing_ids == ExistingOrderIds(v, records)
    IN  [ total   |-> Len(records),
          created |-> CountIn(ids, Range(ids) \ existing_ids),
          updated |-> CountIn(ids, existing_ids),
          skipped |-> SkippedRows(rows) ]

\* an importer that deletes no line before it inserts
SkuDeleteNone(v, sku_records) == v

\* _process_sku_batch, first statement: DELETE of the lines of the batch's orders
SkuDelete(v, sku_records) ==
    LET order_ids == {sku_records[i].order_id : i \in 1..Len(sku_records)}
    IN  [v EXCEPT !.order_skus =
            [o \in OrderIds |-> IF o \in order_ids THEN <<>> ELSE v.order_skus[o]]]

RECURSIVE LinesOf(_, _)
LinesOf(sku_records, o) ==
    IF sku_records = <<>> THEN <<>>
    ELSE (IF Head(sku_records).order_id = o
          THEN <<[ sku_code     |-> Head(sku_records).sku_code,
                   sku_code_raw |-> Head(sku_records).sku_code_raw,
                   quantity     |-> Head(sku_records).quantity ]>>
          ELSE <<>>)
         \o LinesOf(Tail(sku_records), o)

\* _process_sku_batch, second statement: INSERT of the parsed lines
SkuInsert(v, sku_records) ==
    [v EXCEPT !.order_skus =
        [o \in OrderIds |-> v.order_skus[o] \o LinesOf(sku_records, o)]]

\* the upsert statement (lines 138-155)
OrderUpsert(v, records) == [v EXCEPT !.orders = UpsertOrders(v.orders, records)]

\* the view after the first n write statements of the batch have executed:
\* 1 the upsert, 2 the DELETE of the lines, 3 the INSERT of the lines
OrderBatchAfter(v, rows, n) ==
    LET records == OrderRecords(rows)
        sku_records == SkuRecords(rows)
        v1 == IF n >= 1 THEN OrderUpsert(v, records) ELSE v
        v2 == IF n >= 2 /\ sku_records # <<>> THEN SkuDelete(v1, sku_records) ELSE v1
        v3 == IF n >= 3 /\ sku_records # <<>> THEN SkuInsert(v2, sku_records) ELSE v2
    IN  v3

\* the write statements the batch executes: the lines are written only
\* when the batch parsed at least one line (line 161)
OrderBatchWrites(rows) == IF SkuRecords(rows) = <<>> THEN 1 ELSE 3

(***************************************************************************)
(* ExcelImportService._process_aftersale_batch, statement by statement.    *)
(***************************************************************************)
\* lines 244-252: the type text decides the type code
aftersale_type(ty) ==
    CASE ty = "return_refund" -> 1
      [] ty = "refund_only"   -> 2
      [] ty = "exchange"      -> 3
      [] OTHER                -> 0

\* lines 255-263: the status text decides the status code
aftersale_status(st) ==
    CASE st = "wait_buyer_return" -> 2
      [] st = "refund_success"    -> 5
      [] st = "closed"            -> 6
      [] OTHER                    -> 1

RECURSIVE SkippedAfterSales(_)
SkippedAfterSales(rows) ==
    IF rows = <<>> THEN 0
    ELSE (IF HasKey(Head(rows).aid) THEN 0 ELSE 1) + SkippedAfterSales(Tail(rows))

\* record of one row (lines 231-292); province_name is filled in later
AfterSaleData(row) ==
    LET code == CleanCode[row.sku]
    IN  [ aftersale_id     |-> row.aid,
          order_id         |-> IF HasKey(row.oid) THEN row.oid ELSE Null,
          sku_code         |-> IF code = <<>> THEN NullCode ELSE code,
          aftersale_type   |-> aftersale_type(row.ty),
          aftersale_status |-> aftersale_status(row.st),
          reason_text      |-> row.reason,
          province_name    |-> Null ]

RECURSIVE AfterSaleRecords(_)
AfterSaleRecords(rows) ==
    IF rows = <<>> THEN <<>>
    ELSE (IF HasKey(Head(rows).aid) THEN <<AfterSaleData(Head(rows))>> ELSE <<>>)
         \o AfterSaleRecords(Tail(rows))

\* lines 303-317: the province of the referenced order, when it is stored
WithProvince(v, r) ==
    IF r.order_id # Null /\ r.order_id \in DOMAIN v.orders
    THEN [r EXCEPT !.province_name = v.orders[r.order_id].province_name]
    ELSE r

\* after_sales.order_id is NOT NULL: the upsert statement raises IntegrityError
AfterSaleUpsertRaises(records) ==
    \E i \in 1..Len(records) : records[i].order_id = Null

AfterSaleFields(r) ==
    [ order_id         |-> r.order_id,
      sku_code         |-> r.sku_code,
      aftersale_type   |-> r.aftersale_type,
      aftersale_status |-> r.aftersale_status,
      reason_text      |-> r.reason_text,
      province_name    |-> r.province_name ]

\* one row of INSERT ... ON CONFLICT (aftersale_id) DO UPDATE SET <fields>
UpsertAfterSale(after, r) ==
    [a \in DOMAIN after \cup {r.aftersale_id} |->
        IF a = r.aftersale_id THEN AfterSaleFields(r) ELSE after[a]]

RECURSIVE UpsertAfterSales(_, _)
UpsertAfterSales(after, records) ==
    IF records = <<>> THEN after
    ELSE UpsertAfterSales(UpsertAfterSale(after, Head(records)), Tail(records))

\* the upsert statement (lines 331-350)
AfterSaleUpsert(v, records) ==
    [v EXCEPT !.after_sales =
        UpsertAfterSales(v.after_sales,
                         [i \in 1..Len(records) |-> WithProvince(v, records[i])])]

\* an import that marks the orders of the returns that are refunded
RefundOrderIdsSucceeded(records) ==
    {records[i].order_id : i \in {j \in 1..Len(records) :
        /\ records[j].aftersale_type = 1
        /\ records[j].aftersale_status = 5
        /\ records[j].order_id # Null}}

\* refund_order_ids (lines 357-360)
RefundOrderIds(records) ==
    {records[i].order_id : i \in {j \in 1..Len(records) :
        records[j].aftersale_type = 1 /\ records[j].order_id # Null}}

\* a batch that marks no order
MarkSignedNone(v, records) == v

\* UPDATE orders SET is_signed = 1 WHERE order_id IN (...) AND is_signed = 0
MarkSigned(v, records) ==
    [v EXCEPT !.orders =
        [o \in DOMAIN v.orders |->
            IF o \in RefundOrderIds(records) /\ ~v.orders[o].is_signed
            THEN [v.orders[o] EXCEPT !.is_signed = TRUE]
            ELSE v.orders[o]]]

AfterSaleIdsOf(records) == [i \in 1..Len(records) |-> records[i].aftersale_id]

AfterSaleBatchStats(v, rows) ==
    LET records == AfterSaleRecords(rows)
        ids == AfterSaleIdsOf(records)
        existing_ids == Range(ids) \cap DOMAIN v.after_sales
    IN  [ total   |-> Len(records),
          created |-> CountIn(ids, Range(ids) \ existing_ids),
          updated |-> CountIn(ids, existing_ids),
          skipped |-> SkippedAfterSales(rows) ]

\* the write statements the batch executes: the signed mark is written
\* only when the batch holds a return-refund row with an order (line 361)
AfterSaleBatchWrites(rows) ==
    IF RefundOrderIds(AfterSaleRecords(rows)) = {} THEN 1 ELSE 2

\* the view after the first n write statements: 1 the upsert, 2 the mark
AfterSaleBatchAfter(v, rows, n) ==
    LET records == AfterSaleRecords(rows)
        v1 == IF n >= 1 THEN AfterSaleUpsert(v, records) ELSE v
        v2 == IF n >= 2 /\ RefundOrderIds(records) # {} THEN MarkSigned(v1, records) ELSE v1
    IN  v2

\* the rows of the batch that starts after pos rows of the file
BatchAt(file, pos) ==
    SubSeq(file, pos + 1, IF pos + BATCH_SIZE < Len(file) THEN pos + BATCH_SIZE ELSE Len(file))

(***************************************************************************)
(* StatsService.calculate_sku_stats: the grouped queries and the summary.  *)
(* Every query joins orders and filters on the payment-time window; a      *)
(* GROUP BY yields a key only when some joined row passes the filter.      *)
(***************************************************************************)
Max(a, b) == IF a >= b THEN a ELSE b

LineCodes(v, o) == {v.order_skus[o][i].sku_code : i \in 1..Len(v.order_skus[o])}

\* time_conditions (lines 59-63) on a joined order
InWindow(v, o) == o \in DOMAIN v.orders /\ v.orders[o].pay_time

\* OrderSku JOIN Order: the in-window orders with a line of the code
OrderSkuJoin(v, code) == {o \in OrderIds : InWindow(v, o) /\ code \in LineCodes(v, o)}

\* AfterSale JOIN Order: the after-sale rows of the code with an in-window order
AfterSaleJoin(v, code) ==
    {a \in DOMAIN v.after_sales :
        /\ v.after_sales[a].sku_code = code
        /\ v.after_sales[a].order_id # Null
        /\ InWindow(v, v.after_sales[a].order_id)}

OrdersOf(v, S) == {v.after_sales[a].order_id : a \in S}

AllCodes(v) ==
    UNION {LineCodes(v, o) : o \in OrderIds}
    \cup ({v.after_sales[a].sku_code : a \in DOMAIN v.after_sales} \ {NullCode})

\* query 1 (lines 66-104), keyed by the codes the join yields
order_stats(v) ==
    [code \in {c \in AllCodes(v) : OrderSkuJoin(v, c) # {}} |->
        [ pending_ship_count |->
              Cardinality({o \in OrderSkuJoin(v, code) : v.orders[o].order_status = 2}),
          in_transit_count |->
              Cardinality({o \in OrderSkuJoin(v, code) :
                  v.orders[o].order_status = 3 /\ ~v.orders[o].is_signed}) ]]

\* count(distinct order_id) over the after-sale rows in S
CountOrders(v, S) == Cardinality(OrdersOf(v, S))

\* query 2 (lines 107-121)
PendingAfterSales(v, code) ==
    {a \in AfterSaleJoin(v, code) : v.after_sales[a].aftersale_status \in {2, 3}}
aftersale_stats(v) ==
    [code \in {c \in AllCodes(v) : PendingAfterSales(v, c) # {}} |->
        CountOrders(v, PendingAfterSales(v, code))]

\* query 3 (lines 125-144)
SignedReturns(v, code) ==
    {a \in AfterSaleJoin(v, code) :
        /\ v.orders[v.after_sales[a].order_id].is_signed
        /\ v.after_sales[a].aftersale_type = 1}
return_stats(v) ==
    [code \in {c \in AllCodes(v) : SignedReturns(v, c) # {}} |->
        CountOrders(v, SignedReturns(v, code))]

\* QUALITY_REASON_TEXTS (lines 25-32) and the substrings of lines 173-177:
\* the reasons the quality query matches; another reason matches none
QUALITY_REASON_TEXTS == {"damaged", "not_as_described", "bad_quality", "missing_items"}

\* query 4 (lines 167-194): the after-sale rows of the code with a quality
\* reason and an in-window order, of any type and any order
QualityReturns(v, code) ==
    {a \in AfterSaleJoin(v, code) : v.after_sales[a].reason_text \in QUALITY_REASON_TEXTS}
quality_stats(v) ==
    [code \in {c \in AllCodes(v) : QualityReturns(v, c) # {}} |->
        CountOrders(v, QualityReturns(v, code))]

\* query 3.1 (lines 148-165)
SignedAfterSales(v, code) ==
    {a \in AfterSaleJoin(v, code) : v.orders[v.after_sales[a].order_id].is_signed}
aftersale_signed_stats(v) ==
    [code \in {c \in AllCodes(v) : SignedAfterSales(v, c) # {}} |->
        CountOrders(v, SignedAfterSales(v, code))]

\* query 5, first part (lines 198-213)
SignedOrderSku(v, code) == {o \in OrderSkuJoin(v, code) : v.orders[o].is_signed}
signed_orders_from_ordersku(v) ==
    [code \in {c \in AllCodes(v) : SignedOrderSku(v, c) # {}} |->
        Cardinality(SignedOrderSku(v, code))]

\* an overlap query that finds no row
SignedOverlapNone(v, code) == {}

\* query 5, second part (lines 215-236): after-sale rows whose order also
\* has a line of the same code
SignedOverlap(v, code) ==
    {a \in SignedAfterSales(v, code) : code \in LineCodes(v, v.after_sales[a].order_id)}
signed_orders_overlap(v) ==
    [code \in {c \in AllCodes(v) : SignedOverlap(v, c) # {}} |->
        CountOrders(v, SignedOverlap(v, code))]

\* dict.get(key, 0)
Get(d, k) == IF k \in DOMAIN d THEN d[k] ELSE 0

\* a count of the signed orders that have a line of the code alone
UnionCountOrdersOnly(a, b, c) == a

\* lines 242-245: the union count of one code
UnionCount(a, b, c) == Max(a + b - c, 0)

\* signed_sku_orders (lines 239-245)
signed_sku_orders(v) ==
    [code \in DOMAIN signed_orders_from_ordersku(v) \cup DOMAIN aftersale_signed_stats(v) |->
        UnionCount(Get(signed_orders_from_ordersku(v), code),
                   Get(aftersale_signed_stats(v), code),
                   Get(signed_orders_overlap(v), code))]

\* all_sku_codes (lines 249-255)
all_sku_codes(v) ==
    DOMAIN order_stats(v) \cup DOMAIN aftersale_stats(v) \cup DOMAIN return_stats(v)
    \cup DOMAIN quality_stats(v) \cup DOMAIN aftersale_signed_stats(v)

\* Rates are kept as integers in units of 1/RATE_UNIT: round(x, 4) at
\* stats_service.py line 298 leaves four decimals.
RATE_UNIT == 10000

\* DEFAULT_RETURN_RATE = 0.3 (line 19), in rate units
DEFAULT_RETURN_RATE == 3000

\* MIN_ORDERS_FOR_RATE (line 22)
MIN_ORDERS_FOR_RATE == 10

\* the mutant of estimated_return_rate: the ratio is used from one signed order on
estimated_return_rate_any(signed_return_count, signed_count) ==
    IF signed_count >= 1
    THEN <<signed_return_count, signed_count>>
    ELSE <<DEFAULT_RETURN_RATE, RATE_UNIT>>

\* lines 266-273: the unrounded rate as a fraction <<numerator, denominator>>
estimated_return_rate(signed_return_count, signed_count) ==
    IF signed_count >= MIN_ORDERS_FOR_RATE
    THEN <<signed_return_count, signed_count>>
    ELSE <<DEFAULT_RETURN_RATE, RATE_UNIT>>

\* round(rate, 4) (line 298) of a fraction, in rate units: the nearest unit.
\* A tie needs a denominator that is a multiple of 32, which no bounded input
\* has, so half-up and Python's half-even agree here.
Round4(rate) == (2 * RATE_UNIT * rate[1] + rate[2]) \div (2 * rate[2])

\* int(count * rate) (lines 286, 367, 498) for a fraction
IntTimes(count, rate) == (count * rate[1]) \div rate[2]

\* a stored rate (rate units) read back as a fraction
Stored(rate) == <<rate, RATE_UNIT>>

\* lines 277-282 and 304: quality_return_count / signed_orders_total, rounded
\* to four decimals, and 0 without signed orders
quality_return_rate(quality_return_count, signed_orders_total) ==
    IF signed_orders_total > 0
    THEN Round4(<<quality_return_count, signed_orders_total>>)
    ELSE 0

\* one entry of stats_list: the loop body at lines 257-307
StatsRow(pending_ship_count, in_transit_count, aftersale_pending_count, signed_return_count, signed_count, quality_return_count) ==
    LET rate == estimated_return_rate(signed_return_count, signed_count)
        in_transit_return_estimate == IntTimes(in_transit_count, rate)
    IN  [ pending_ship_count |-> pending_ship_count,
          in_transit_count |-> in_transit_count,
          aftersale_pending_count |-> aftersale_pending_count,
          signed_return_count |-> signed_return_count,
          signed_count |-> signed_count,
          estimated_return_rate |-> Round4(rate),
          in_transit_return_estimate |-> in_transit_return_estimate,
          stock_gap |-> pending_ship_count - aftersale_pending_count
                        - in_transit_return_estimate,
          quality_return_count |-> quality_return_count,
          quality_return_rate |-> quality_return_rate(quality_return_count, signed_count) ]

\* stats_list (lines 257-307), as a function of the code
calculate_sku_stats(v) ==
    [code \in all_sku_codes(v) |->
        StatsRow(IF code \in DOMAIN order_stats(v)
                 THEN order_stats(v)[code].pending_ship_count ELSE 0,
                 IF code \in DOMAIN order_stats(v)
                 THEN order_stats(v)[code].in_transit_count ELSE 0,
                 Get(aftersale_stats(v), code),
                 Get(return_stats(v), code),
                 Get(signed_sku_orders(v), code),
                 Get(quality_stats(v), code))]

\* the mutant of FinalRate: the computed rate always wins
FinalRateComputed(existing, is_manual, computed) == computed

\* lines 333-354: the rate a snapshot row ends with; a manually set rate stays
FinalRate(existing, is_manual, computed) ==
    IF is_manual THEN existing ELSE computed

\* the mutant of Derived: the estimate is left out of the gap
DerivedNoEstimate(row) ==
    [row EXCEPT !.in_transit_return_estimate =
                    IntTimes(row.in_transit_count, Stored(row.estimated_return_rate)),
                !.stock_gap = row.pending_ship_count - row.aftersale_pending_count]

\* lines 367-370 and 498-503: the estimate and the gap follow from the row's
\* counts and its rate
Derived(row) ==
    LET in_transit_return_estimate ==
            IntTimes(row.in_transit_count, Stored(row.estimated_return_rate))
    IN  [row EXCEPT !.in_transit_return_estimate = in_transit_return_estimate,
                    !.stock_gap = row.pending_ship_count
                                  - row.aftersale_pending_count
                                  - in_transit_return_estimate]

\* a save that takes the estimate and the gap of the computed entry, which
\* follow from the computed rate
SavedRowComputed(v, code, stats) ==
    LET exists == code \in DOMAIN v.sku_stats
        is_rate_manual == exists /\ v.sku_stats[code].is_rate_manual
    IN  [ pending_ship_count |-> stats.pending_ship_count,
          in_transit_count |-> stats.in_transit_count,
          aftersale_pending_count |-> stats.aftersale_pending_count,
          signed_return_count |-> stats.signed_return_count,
          signed_count |-> stats.signed_count,
          estimated_return_rate |->
              FinalRate(IF exists THEN v.sku_stats[code].estimated_return_rate
                        ELSE DEFAULT_RETURN_RATE,
                        is_rate_manual, stats.estimated_return_rate),
          is_rate_manual |-> is_rate_manual,
          in_transit_return_estimate |-> stats.in_transit_return_estimate,
          stock_gap |-> stats.stock_gap,
          quality_return_count |-> stats.quality_return_count,
          quality_return_rate |-> stats.quality_return_rate ]

\* lines 326-370: the snapshot row of one computed entry
SavedRow(v, code, stats) ==
    LET exists == code \in DOMAIN v.sku_stats
        is_rate_manual == exists /\ v.sku_stats[code].is_rate_manual
    IN  Derived(
          [ pending_ship_count |-> stats.pending_ship_count,
            in_transit_count |-> stats.in_transit_count,
            aftersale_pending_count |-> stats.aftersale_pending_count,
            signed_return_count |-> stats.signed_return_count,
            signed_count |-> stats.signed_count,
            estimated_return_rate |->
                FinalRate(IF exists THEN v.sku_stats[code].estimated_return_rate
                          ELSE DEFAULT_RETURN_RATE,
                          is_rate_manual, stats.estimated_return_rate),
            is_rate_manual |-> is_rate_manual,
            in_transit_return_estimate |-> 0,
            stock_gap |-> 0,
            quality_return_count |-> stats.quality_return_count,
            quality_return_rate |-> stats.quality_return_rate ])

\* save_sku_stats (lines 324-377): one snapshot row per computed code; the
\* rows of codes that were not computed stay as they are
save_sku_stats(v, stats_list) ==
    [v EXCEPT !.sku_stats =
        [code \in DOMAIN v.sku_stats \cup DOMAIN stats_list |->
            IF code \in DOMAIN stats_list
            THEN SavedRow(v, code, stats_list[code])
            ELSE v.sku_stats[code]]]

\* an update that stores the rate and the flag and leaves the estimate and
\* the gap as they were
update_return_rate_only(v, sku_code, return_rate) ==
    IF sku_code \notin DOMAIN v.sku_stats THEN v
    ELSE [v EXCEPT !.sku_stats[sku_code] =
            [@ EXCEPT !.estimated_return_rate = return_rate, !.is_rate_manual = TRUE]]

\* update_return_rate (lines 476-513): False (no change) for an unknown code
update_return_rate(v, sku_code, return_rate) ==
    IF sku_code \notin DOMAIN v.sku_stats THEN v
    ELSE [v EXCEPT !.sku_stats[sku_code] =
            Derived([@ EXCEPT !.estimated_return_rate = return_rate,
                              !.is_rate_manual = TRUE])]

(***************************************************************************)
(* State.                                                                  *)
(***************************************************************************)
VARIABLES
    db,       \* the committed store
    tx,       \* tx[w]: the view of worker w's session while it holds uncommitted writes
    dirty,    \* dirty[w]: the session of w holds uncommitted writes
    pc,       \* pc[w]: where worker w stands in run_forever / _process_job
    sel,      \* sel[w]: id of the job _claim_one_job selected, 0 if none
    job,      \* job[w]: id of the job w processes, 0 if none
    pos,      \* pos[w]: rows of the current file already imported
    stats,    \* stats[w]: the counters import_orders / import_aftersales accumulate
    exc,      \* exc[w]: the exception the handler of _process_job caught
    faults,   \* store errors raised so far
    payload,  \* payload[j]: type and files of the uploaded job j (never changes)
    wins,     \* wins[j]: conditional updates of the claim that affected job j
    losses,   \* losses[j]: conditional updates on job j that affected no row
    snap,     \* the store when the last file was uploaded
    raised,   \* raised[j]: the exception that ended the processing of job j, and its stage
    log,      \* log.claims: the jobs in the order their claims succeeded;
              \* log.stages[j]: the calls of _process_job for job j that have returned
    computed, \* the stats_list the stats API saved last
    manual,   \* manual[code]: the rate the last successful update_return_rate set, and
              \* the recalculations of the code since (up to MaxRuns)
    stop_event, \* ImportWorker._stop_event is set
    scan_orders, \* the orders table by Order.id, with the columns the scanner uses
    clock,    \* datetime.now()
    scan,     \* scan[s]: the locals of one run of batch_check_logistics and its
              \* entry of logistics_tasks
    remote    \* remote[id]: the calls of check_signed for order id, <<scan, time>> each

vars == <<db, tx, dirty, pc, sel, job, pos, stats, exc, faults, payload, wins, losses, snap,
          raised, log, computed, manual, stop_event, scan_orders, clock, scan, remote>>

\* written by the logistics scanner and by what changes the orders it reads
scan_vars == <<scan_orders, clock, scan, remote>>

\* written by the stats API only
snapshot_vars == <<computed, manual>>

JobIds == 1..NumJobs

NoError == "none"
NotRaised == [error |-> NoError, stage |-> "none"]
NoStats == [total |-> -1, created |-> -1, updated |-> -1, skipped |-> -1]

\* ImportTask as create_task makes it (upload.py lines 40-47)
NewTask(ty) ==
    [ task_type |-> ty, status |-> "processing", error |-> NoError,
      order_stats |-> NoStats, aftersale_stats |-> NoStats ]

\* ImportJob as the upload handlers make it (upload.py lines 97-102)
NewJob(ty) == [task_type |-> ty, status |-> "queued"]

With(f, k, x) == [y \in DOMAIN f \cup {k} |-> IF y = k THEN x ELSE f[y]]
Without(f, S) == [y \in DOMAIN f \ S |-> f[y]]

View(w) == IF dirty[w] THEN tx[w] ELSE db

\* SQLite admits one writer: w can write when no other session holds writes
CanWrite(w) == \A o \in Workers \ {w} : ~dirty[o]

MayFault == faults < MaxFaults

\* session.commit()
Commit(w, v) ==
    /\ db' = v
    /\ tx' = [tx EXCEPT ![w] = EmptyStore]
    /\ dirty' = [dirty EXCEPT ![w] = FALSE]

\* statements executed and left uncommitted
Pending(w, v) ==
    /\ db' = db
    /\ tx' = [tx EXCEPT ![w] = IF v = db THEN EmptyStore ELSE v]
    /\ dirty' = [dirty EXCEPT ![w] = v # db]

\* a batch that leaves its writes to a later commit
CommitBatchDeferred(w, v) == Pending(w, v)

\* the commit that ends a batch (excel_import.py lines 165, 370)
CommitBatch(w, v) == Commit(w, v)

\* the setattr loop of _update_task (lines 39-40)
SetAttrs(task, kwargs) ==
    [f \in DOMAIN task |-> IF f \in DOMAIN kwargs THEN kwargs[f] ELSE task[f]]

\* _update_task (lines 34-42): patches and commits when the task exists,
\* returns without a commit when it does not
_update_task(w, v, tid, kwargs) ==
    IF tid \in DOMAIN v.tasks
    THEN Commit(w, [v EXCEPT !.tasks[tid] = SetAttrs(@, kwargs)])
    ELSE Pending(w, v)

\* an exception reaches the except clause of _process_job (line 150)
Raise(w, e) ==
    /\ pc' = [pc EXCEPT ![w] = "except"]
    /\ exc' = [exc EXCEPT ![w] = e]

Fault(n) == faults' = faults + (IF n >= 0 THEN 1 ELSE 0)

\* the points of a stage where a statement may raise a store error: -1 is
\* no error, n >= 0 an error after n write statements of the stage
FaultPoints(writes) == IF MayFault THEN -1..(writes - 1) ELSE {-1}

Min(S) == CHOOSE x \in S : \A y \in S : x <= y

NeedsOrders(ty) == ty \in {"orders", "all"}
NeedsAfterSales(ty) == ty \in {"aftersales", "all"}

(***************************************************************************)
(* The logistics scanner (api/logistics.py) and KD100Client.check_signed.  *)
(***************************************************************************)
\* the background tasks of POST /check-all that may run at the same time,
\* numbered in the order they start
Scans == {"s1", "s2"}

\* a scan that was not started; seen and reply record the orders the for
\* loop has reached and the last answer of check_signed, error is the entry
\* logistics_tasks[task_id]["error"], recalcs counts the calls of
\* calculate_sku_stats at line 301
IdleScan ==
    [ pc |-> "idle", status |-> "none", limit |-> 0, last_id |-> 0,
      interval_threshold |-> 0, orders |-> <<>>, idx |-> 0,
      checked_count |-> 0, signed_count |-> 0, skipped_count |-> 0,
      expired |-> FALSE, seen |-> <<>>, reply |-> "none",
      error |-> NoError, recalcs |-> 0 ]

\* what the remote service answers: state 3 (signed), another state with
\* message ok, or no usable answer (message not ok, HTTP error, unparsable)
Replies == {"signed", "in_transit", "error"}

\* KD100Client.check_signed (kd100_client.py lines 232-269): every exception
\* is caught and turned into a result with status error and is_signed False
check_signed(reply) ==
    [ is_signed |-> reply = "signed",
      status |-> reply,
      status_desc |-> reply ]

\* conditions that leave out the tracking number and the order status
EligibleAnyStatus(order, interval_threshold) ==
    /\ ~order.is_signed
    /\ (~order.logistics_checked \/ order.updated_at < interval_threshold)

\* base_conditions without the cursor (logistics.py lines 119-128, 230-237)
Eligible(order, interval_threshold) ==
    /\ order.logistics_code # ""
    /\ order.order_status = 3
    /\ ~order.is_signed
    /\ (~order.logistics_checked \/ order.updated_at < interval_threshold)

RECURSIVE Ascending(_)
\* ORDER BY id ASC
Ascending(S) ==
    IF S = {} THEN <<>> ELSE <<Min(S)>> \o Ascending(S \ {Min(S)})

\* the ORM object of a selected row: the column values at the time of the
\* SELECT, with the columns the scanner reads or writes
Loaded(table, id) ==
    [ id |-> id,
      logistics_code |-> table[id].logistics_code,
      order_status |-> table[id].order_status,
      logistics_checked |-> table[id].logistics_checked,
      is_signed |-> table[id].is_signed,
      sign_time |-> table[id].sign_time,
      logistics_status_desc |-> table[id].logistics_status_desc,
      updated_at |-> table[id].updated_at ]

\* a SELECT without the condition on the cursor
SelectOrdersNoCursor(table, last_id, interval_threshold, n) ==
    LET ids == {i \in DOMAIN table : Eligible(table[i], interval_threshold)}
        first == {i \in ids : Cardinality({j \in ids : j < i}) < n}
        sorted == Ascending(first)
    IN  [k \in 1..Len(sorted) |-> Loaded(table, sorted[k])]

\* lines 240-246: the first n eligible orders after the cursor, as the ORM
\* objects the session holds: the column values at the time of the SELECT
SelectOrders(table, last_id, interval_threshold, n) ==
    LET ids == {i \in DOMAIN table :
                    i > last_id /\ Eligible(table[i], interval_threshold)}
        first == {i \in ids : Cardinality({j \in ids : j < i}) < n}
        sorted == Ascending(first)
    IN  [k \in 1..Len(sorted) |-> Loaded(table, sorted[k])]

\* The orders table is held twice: scan_orders has the columns the scanner
\* reads and writes, by Order.id, and db.orders the columns the statistics
\* read, by order_id.  is_signed is in both: a commit of the scanner writes
\* the is_signed of the flushed row to db.orders as well.
SignedColumn(v, row) ==
    IF row.order_id \in DOMAIN v.orders
    THEN [v EXCEPT !.orders[row.order_id].is_signed = row.is_signed]
    ELSE v

\* the unit of work flushes the attributes that differ from the loaded ones
Flush(row, loaded, order) ==
    [ row EXCEPT
        !.logistics_checked = IF order.logistics_checked # loaded.logistics_checked
                              THEN order.logistics_checked ELSE @,
        !.is_signed = IF order.is_signed # loaded.is_signed THEN order.is_signed ELSE @,
        !.sign_time = IF order.sign_time # loaded.sign_time THEN order.sign_time ELSE @,
        !.logistics_status_desc =
            IF order.logistics_status_desc # loaded.logistics_status_desc
            THEN order.logistics_status_desc ELSE @,
        !.updated_at = IF order.updated_at # loaded.updated_at THEN order.updated_at ELSE @ ]

\* the next pass of the for loop (line 251), or the next batch when the
\* loop is through
NextOrder(r) ==
    IF r.idx < Len(r.orders)
    THEN [r EXCEPT !.idx = @ + 1, !.pc = "row"]
    ELSE [r EXCEPT !.idx = 0, !.orders = <<>>, !.pc = "select"]

\* what the scanner never writes
not_scan_vars ==
    <<tx, dirty, pc, sel, job, pos, stats, exc, payload, wins, losses, snap, raised, log,
      snapshot_vars, stop_event>>

\* check_all_logistics (lines 82-175): with nothing to check no task is
\* created; otherwise the task entry and the background task
check_all_logistics(s, limit) ==
    /\ scan[s].pc = "idle"
    /\ s = "s2" => scan["s1"].pc # "idle"
    /\ LET interval_threshold == clock - interval_minutes
           eligible_total ==
               Cardinality({i \in DOMAIN scan_orders :
                               Eligible(scan_orders[i], interval_threshold)})
           target_total == IF limit = 0 THEN eligible_total
                           ELSE Min({eligible_total, limit})
       IN  /\ target_total > 0
           /\ scan' = [scan EXCEPT ![s] =
                         [IdleScan EXCEPT !.pc = "select", !.status = "processing",
                                          !.limit = limit,
                                          !.interval_threshold = interval_threshold]]
    /\ UNCHANGED <<db, faults, scan_orders, clock, remote, not_scan_vars>>

\* a handler that records the error and leaves the status as it was
ScanFailedSilently(r, e) == [r EXCEPT !.pc = "done", !.error = e]

\* lines 308-310: an exception that leaves the while loop or the
\* recalculation ends the scan as failed
ScanFailed(r, e) == [r EXCEPT !.pc = "done", !.status = "failed", !.error = e]

\* lines 218-249: the limit test, the threshold and the SELECT of a batch;
\* the objects a SELECT returns are loaded, also after a rollback; a SELECT
\* that raises a store error leaves the loop
SelectBatch(s) ==
    /\ scan[s].pc = "select"
    /\ LET r == scan[s]
           current_batch_size ==
               IF r.limit # 0 THEN Min({batch_size, r.limit - r.checked_count})
               ELSE batch_size
           interval_threshold == clock - interval_minutes
           orders == SelectOrders(scan_orders, r.last_id, interval_threshold,
                                  current_batch_size)
       IN  \E n \in FaultPoints(1) :
            /\ (r.limit # 0 /\ r.checked_count >= r.limit) => n = -1
            /\ Fault(n)
            /\ scan' = [scan EXCEPT ![s] =
                IF r.limit # 0 /\ r.checked_count >= r.limit
                THEN [r EXCEPT !.pc = "stats", !.reply = "none"]
                ELSE IF n >= 0
                THEN ScanFailed(r, "OperationalError")
                ELSE IF orders = <<>>
                THEN [r EXCEPT !.pc = "stats", !.reply = "none",
                               !.interval_threshold = interval_threshold]
                ELSE [r EXCEPT !.pc = "row", !.orders = orders, !.idx = 1,
                               !.expired = FALSE,
                               !.interval_threshold = interval_threshold]]
    /\ UNCHANGED <<db, scan_orders, clock, remote, not_scan_vars>>

\* line 255: the double-check, on the attributes of the loaded object
DoubleCheck(order, interval_threshold) ==
    order.logistics_checked /\ order.updated_at >= interval_threshold

\* lines 251-263: the cursor, the double-check and the call of check_signed.
\* After a rollback every object of the session is expired, and reading
\* order.id at line 252 needs a load that an AsyncSession cannot do outside
\* an await: MissingGreenlet is raised outside the inner try and reaches the
\* handler at lines 308-310.
BeginOrder(s) ==
    /\ scan[s].pc = "row"
    /\ LET r == scan[s]
           order == r.orders[r.idx]
           seen == [r EXCEPT !.last_id = Max(@, order.id), !.seen = Append(@, order.id),
                             !.reply = "none"]
       IN  IF r.expired
           THEN /\ scan' = [scan EXCEPT ![s] = ScanFailed(r, "MissingGreenlet")]
                /\ UNCHANGED remote
           ELSE IF DoubleCheck(order, r.interval_threshold)
           THEN /\ scan' = [scan EXCEPT ![s] =
                              NextOrder([seen EXCEPT !.skipped_count = @ + 1])]
                /\ UNCHANGED remote
           ELSE /\ scan' = [scan EXCEPT ![s] = [seen EXCEPT !.pc = "remote"]]
                /\ remote' = [remote EXCEPT ![order.id] = Append(@, <<s, clock>>)]
    /\ UNCHANGED <<db, faults, scan_orders, clock, not_scan_vars>>

\* lines 265-278: the result is written to the order, whatever its status;
\* sign_time tells whether the column holds a time, and the latest_time of
\* a signed answer is one that strptime parses
WriteStatus(loaded, status, now) ==
    [loaded EXCEPT !.logistics_checked = TRUE,
                   !.is_signed = status.is_signed,
                   !.sign_time = IF status.is_signed THEN TRUE ELSE @,
                   !.logistics_status_desc = status.status_desc,
                   !.updated_at = now]

\* a scan that does not count the orders it has checked
CheckedNotCounted(checked_count) == checked_count

\* line 282: checked_count += 1 after the commit
Checked(checked_count) == checked_count + 1

\* lines 260-296: the answer of check_signed, the assignments and the
\* commit; a commit that raises is followed by the rollback and continue
FinishOrder(s) ==
    /\ scan[s].pc = "remote"
    /\ \E reply \in Replies, n \in FaultPoints(1) :
        LET r == scan[s]
            loaded == r.orders[r.idx]
            status == check_signed(reply)
            order == WriteStatus(loaded, status, clock)
            counted == [r EXCEPT !.reply = reply,
                                 !.checked_count = Checked(@),
                                 !.signed_count = @ + (IF status.is_signed THEN 1 ELSE 0)]
        IN  /\ Fault(n)
            /\ IF n >= 0
               THEN /\ scan' = [scan EXCEPT ![s] =
                                  NextOrder([r EXCEPT !.reply = reply, !.expired = TRUE])]
                    /\ UNCHANGED <<db, scan_orders>>
               ELSE /\ scan_orders' = [scan_orders EXCEPT ![loaded.id] =
                                          Flush(@, loaded, order)]
                    /\ db' = SignedColumn(db, Flush(scan_orders[loaded.id], loaded, order))
                    /\ scan' = [scan EXCEPT ![s] =
                                  IF r.limit # 0 /\ counted.checked_count >= r.limit
                                  THEN [counted EXCEPT !.idx = 0, !.orders = <<>>,
                                                       !.pc = "select"]
                                  ELSE NextOrder(counted)]
    /\ UNCHANGED <<clock, remote, not_scan_vars>>

\* a scan that ends without a recalculation
ScanRecalculateNone(v) == v

\* lines 300-302: calculate_sku_stats and save_sku_stats with its commit
ScanRecalculate(v) == save_sku_stats(v, calculate_sku_stats(v))

\* lines 298-307: the statistics are recalculated and the task is completed;
\* a store error in a query of the recalculation reaches the handler at
\* lines 308-310
FinishScan(s) ==
    /\ scan[s].pc = "stats"
    /\ \E n \in FaultPoints(1) :
        /\ Fault(n)
        /\ IF n >= 0
           THEN /\ scan' = [scan EXCEPT ![s] =
                              ScanFailed([@ EXCEPT !.recalcs = @ + 1], "OperationalError")]
                /\ UNCHANGED db
           ELSE /\ db' = ScanRecalculate(db)
                /\ scan' = [scan EXCEPT ![s] =
                              [@ EXCEPT !.pc = "done", !.status = "completed",
                                        !.recalcs = @ + 1]]
    /\ UNCHANGED <<scan_orders, clock, remote, not_scan_vars>>

\* time passes
Tick ==
    /\ clock < MaxClock
    /\ clock' = clock + 1
    /\ UNCHANGED <<db, faults, scan_orders, scan, remote, not_scan_vars>>

\* an order as the importer inserts it: shipped, with a tracking number
NewOrder(order_id, now) ==
    [ order_id |-> order_id, order_status |-> 3, logistics_code |-> "T",
      is_signed |-> FALSE, sign_time |-> FALSE, logistics_checked |-> FALSE,
      logistics_status_desc |-> "none", updated_at |-> now ]

\* the order number of the order the importer inserts as row id during a
\* scan; its row has no merchant code, so the order has no line
LateOrderId(id) == CASE id = 3 -> "C" [] id = 4 -> "D" [] OTHER -> "E"

\* another writer: the upsert of the importer (excel_import.py lines 138-155)
\* inserts a shipped order
ImportInserts ==
    /\ Len(scan_orders) < MaxOrders
    /\ scan_orders' = Append(scan_orders,
                              NewOrder(LateOrderId(Len(scan_orders) + 1), clock))
    /\ db' = OrderUpsert(db, <<[ order_id |-> LateOrderId(Len(scan_orders) + 1),
                                 order_status |-> 3,
                                 create_time |-> TRUE, pay_time |-> TRUE,
                                 province_name |-> "P1" ]>>)
    /\ UNCHANGED <<faults, clock, scan, remote, not_scan_vars>>

\* another writer: the same upsert sets updated_at of a stored order
ImportUpdates ==
    /\ \E id \in DOMAIN scan_orders :
          scan_orders' = [scan_orders EXCEPT ![id].updated_at = clock]
    /\ UNCHANGED <<db, faults, clock, scan, remote, not_scan_vars>>

(***************************************************************************)
(* Upload handlers (upload.py lines 94-104, 140-150, 189-202): a task      *)
(* record and a queued job whose payload names the files of its type.      *)
(***************************************************************************)
Enqueue(ty, of, af) ==
    LET id == Cardinality(DOMAIN payload) + 1
    IN  /\ id \in JobIds
        /\ \A w \in Workers : ~dirty[w]
        /\ db' = [db EXCEPT !.tasks = With(@, id, NewTask(ty)),
                            !.jobs = With(@, id, NewJob(ty))]
        /\ payload' = With(payload, id,
                           [ task_type |-> ty,
                             orders_filename |-> NeedsOrders(ty),
                             orders_file |-> of,
                             aftersales_filename |-> NeedsAfterSales(ty),
                             aftersales_file |-> af ])
        /\ UNCHANGED <<tx, dirty, pc, sel, job, pos, stats, exc, faults, wins, losses, raised, log>>
        /\ UNCHANGED <<snapshot_vars, stop_event, scan_vars>>

(***************************************************************************)
(* ImportWorker._claim_one_job (lines 57-82).                              *)
(***************************************************************************)
Queued(v) == {j \in DOMAIN v.jobs : v.jobs[j].status = "queued"}

\* a loop that ends when an exception reaches it
AfterLoopErrorExit == "ended"

\* run_forever lines 172-174: an exception that reaches the loop is swallowed;
\* the worker sleeps and tests the loop condition again
AfterLoopError == "poll"

\* a SELECT that orders the jobs by created_at descending
Newest(S) == CHOOSE x \in S : \A y \in S : y <= x

\* ORDER BY created_at ASC LIMIT 1 (lines 62-63): created_at is the time of
\* the upload, and the job ids are given in the order of the uploads
Oldest(S) == Min(S)

\* line 164 and lines 59-67: while the stop event is not set, the oldest
\* queued job; with none the worker sleeps
ClaimSelect(w) ==
    /\ pc[w] = "poll"
    /\ ~stop_event
    /\ Queued(db) # {}
    /\ sel' = [sel EXCEPT ![w] = Oldest(Queued(db))]
    /\ pc' = [pc EXCEPT ![w] = "claim"]
    /\ UNCHANGED <<db, tx, dirty, job, pos, stats, exc, faults, payload, wins, losses, snap>>

\* a claim that tests only that the row exists
ClaimGuardNoStatus(v, j) == j \in DOMAIN v.jobs

\* the WHERE clause of the claim (line 72)
ClaimGuard(v, j) == j \in DOMAIN v.jobs /\ v.jobs[j].status = "queued"

\* lines 69-78: the conditional update, its commit and the rowcount test
ClaimUpdate(w) ==
    /\ pc[w] = "claim"
    /\ CanWrite(w)
    /\ \E n \in FaultPoints(1) :
        /\ Fault(n)
        /\ IF n >= 0
           THEN /\ pc' = [pc EXCEPT ![w] = AfterLoopError]
                /\ sel' = [sel EXCEPT ![w] = 0]
                /\ UNCHANGED <<db, wins, losses>>
           ELSE IF ClaimGuard(db, sel[w])
           THEN /\ db' = [db EXCEPT !.jobs[sel[w]].status = "processing"]
                /\ wins' = [wins EXCEPT ![sel[w]] = @ + 1]
                /\ pc' = [pc EXCEPT ![w] = "refresh"]
                /\ UNCHANGED <<sel, losses>>
           ELSE /\ losses' = [losses EXCEPT ![sel[w]] = @ + 1]
                /\ pc' = [pc EXCEPT ![w] = "poll"]
                /\ sel' = [sel EXCEPT ![w] = 0]
                /\ UNCHANGED <<db, wins>>
    /\ UNCHANGED <<tx, dirty, job, pos, stats, exc, payload, snap>>

\* lines 80-82: the job is read again and returned; scalar_one() raises
\* when the row is gone, and run_forever swallows the exception
ClaimRefresh(w) ==
    /\ pc[w] = "refresh"
    /\ \E n \in FaultPoints(1) :
        /\ Fault(n)
        /\ IF n < 0 /\ sel[w] \in DOMAIN db.jobs
           THEN /\ job' = [job EXCEPT ![w] = sel[w]]
                /\ pc' = [pc EXCEPT ![w] = "start"]
           ELSE /\ pc' = [pc EXCEPT ![w] = AfterLoopError]
                /\ UNCHANGED job
    /\ sel' = [sel EXCEPT ![w] = 0]
    /\ UNCHANGED <<db, tx, dirty, pos, stats, exc, payload, wins, losses, snap>>

(***************************************************************************)
(* ImportWorker._process_job (lines 101-158).  The job object the worker   *)
(* holds is the one the claim returned; its type and payload are those of  *)
(* the upload.                                                             *)
(***************************************************************************)
\* a call that sets the progress text alone
ProgressOnly == EmptyFn

\* lines 107-116, or 119-123 for a job of after-sales alone: the paths are
\* resolved, the progress is written and the file is read
StartJob(w) ==
    /\ pc[w] = "start"
    /\ CanWrite(w)
    /\ LET p == payload[job[w]]
           path == IF NeedsOrders(p.task_type)
                   THEN p.orders_filename ELSE p.aftersales_filename
       IN  \E n \in FaultPoints(1) :
            /\ Fault(n)
            /\ IF ~path
               THEN Raise(w, "ValueError") /\ Pending(w, View(w))
               ELSE IF n >= 0
               THEN Raise(w, "OperationalError") /\ Pending(w, View(w))
               ELSE /\ _update_task(w, View(w), job[w], ProgressOnly)
                    /\ pc' = [pc EXCEPT ![w] =
                                IF NeedsOrders(p.task_type) THEN "orders" ELSE "aftersales"]
                    /\ UNCHANGED exc
    /\ pos' = [pos EXCEPT ![w] = 0]
    /\ stats' = [stats EXCEPT ![w] = ZeroStats]
    /\ UNCHANGED <<sel, job, payload, wins, losses, snap>>

\* one pass of the loop of import_orders (lines 58-66) through
\* _process_order_batch (lines 70-167)
OrderBatch(w) ==
    /\ pc[w] = "orders"
    /\ pos[w] < Len(payload[job[w]].orders_file)
    /\ CanWrite(w)
    /\ LET rows == BatchAt(payload[job[w]].orders_file, pos[w])
           records == OrderRecords(rows)
           v == View(w)
       IN  \E n \in FaultPoints(OrderBatchWrites(rows)) :
            IF OrderParseRaises(rows)
            THEN /\ n = -1
                 /\ Raise(w, "ValueError")
                 /\ Pending(w, v)
                 /\ UNCHANGED <<pos, stats, faults>>
            ELSE IF records = <<>>
            THEN /\ n = -1
                 /\ pos' = [pos EXCEPT ![w] = @ + Len(rows)]
                 /\ stats' = [stats EXCEPT ![w] = AddStats(@, OrderBatchStats(v, rows))]
                 /\ UNCHANGED <<db, tx, dirty, pc, exc, faults>>
            ELSE IF n >= 0
            THEN /\ Fault(n)
                 /\ Raise(w, "OperationalError")
                 /\ Pending(w, OrderBatchAfter(v, rows, n))
                 /\ UNCHANGED <<pos, stats>>
            ELSE IF OrderUpsertRaises(records)
            THEN /\ Raise(w, "IntegrityError")
                 /\ Pending(w, v)
                 /\ UNCHANGED <<pos, stats, faults>>
            ELSE /\ CommitBatch(w, OrderBatchAfter(v, rows, 3))
                 /\ pos' = [pos EXCEPT ![w] = @ + Len(rows)]
                 /\ stats' = [stats EXCEPT ![w] = AddStats(@, OrderBatchStats(v, rows))]
                 /\ UNCHANGED <<pc, exc, faults>>
    /\ UNCHANGED <<sel, job, payload, wins, losses, snap>>

\* a worker that goes from the imports to the completion marks
AfterImportsNoStats == "mark_task"

\* lines 126-129: the recalculation follows the imports of every job type
AfterImports == "stats"

\* import_orders has returned: the counters go to the task (line 117) and a
\* job of type all goes on to the after-sales (lines 119-123)
OrdersDone(w) ==
    /\ pc[w] = "orders"
    /\ pos[w] >= Len(payload[job[w]].orders_file)
    /\ CanWrite(w)
    /\ LET p == payload[job[w]]
       IN  \E n \in FaultPoints(1) :
            /\ Fault(n)
            /\ IF n >= 0
               THEN Raise(w, "OperationalError") /\ Pending(w, View(w))
               ELSE IF NeedsAfterSales(p.task_type) /\ ~p.aftersales_filename
               THEN /\ _update_task(w, View(w), job[w], [order_stats |-> stats[w]])
                    /\ Raise(w, "ValueError")
               ELSE /\ _update_task(w, View(w), job[w], [order_stats |-> stats[w]])
                    /\ pc' = [pc EXCEPT ![w] =
                                IF NeedsAfterSales(p.task_type) THEN "aftersales"
                                ELSE AfterImports]
                    /\ UNCHANGED exc
    /\ pos' = [pos EXCEPT ![w] = 0]
    /\ stats' = [stats EXCEPT ![w] = ZeroStats]
    /\ UNCHANGED <<sel, job, payload, wins, losses, snap>>

\* one pass of the loop of import_aftersales (lines 205-213) through
\* _process_aftersale_batch (lines 217-372)
AfterSaleBatch(w) ==
    /\ pc[w] = "aftersales"
    /\ pos[w] < Len(payload[job[w]].aftersales_file)
    /\ CanWrite(w)
    /\ LET rows == BatchAt(payload[job[w]].aftersales_file, pos[w])
           records == AfterSaleRecords(rows)
           v == View(w)
       IN  \E n \in FaultPoints(AfterSaleBatchWrites(rows)) :
            IF records = <<>>
            THEN /\ n = -1
                 /\ pos' = [pos EXCEPT ![w] = @ + Len(rows)]
                 /\ stats' = [stats EXCEPT ![w] = AddStats(@, AfterSaleBatchStats(v, rows))]
                 /\ UNCHANGED <<db, tx, dirty, pc, exc, faults>>
            ELSE IF n >= 0
            THEN /\ Fault(n)
                 /\ Raise(w, "OperationalError")
                 /\ Pending(w, AfterSaleBatchAfter(v, rows, n))
                 /\ UNCHANGED <<pos, stats>>
            ELSE IF AfterSaleUpsertRaises(records)
            THEN /\ Raise(w, "IntegrityError")
                 /\ Pending(w, v)
                 /\ UNCHANGED <<pos, stats, faults>>
            ELSE /\ CommitBatch(w, AfterSaleBatchAfter(v, rows, 2))
                 /\ pos' = [pos EXCEPT ![w] = @ + Len(rows)]
                 /\ stats' = [stats EXCEPT ![w] = AddStats(@, AfterSaleBatchStats(v, rows))]
                 /\ UNCHANGED <<pc, exc, faults>>
    /\ UNCHANGED <<sel, job, payload, wins, losses, snap>>

\* import_aftersales has returned: the counters go to the task (line 124)
AfterSalesDone(w) ==
    /\ pc[w] = "aftersales"
    /\ pos[w] >= Len(payload[job[w]].aftersales_file)
    /\ CanWrite(w)
    /\ \E n \in FaultPoints(1) :
        /\ Fault(n)
        /\ IF n >= 0
           THEN Raise(w, "OperationalError") /\ Pending(w, View(w))
           ELSE /\ _update_task(w, View(w), job[w], [aftersale_stats |-> stats[w]])
                /\ pc' = [pc EXCEPT ![w] = AfterImports]
                /\ UNCHANGED exc
    /\ pos' = [pos EXCEPT ![w] = 0]
    /\ stats' = [stats EXCEPT ![w] = ZeroStats]
    /\ UNCHANGED <<sel, job, payload, wins, losses, snap>>

\* lines 127-129: the snapshots are computed and saved
Recalculate(w) ==
    /\ pc[w] = "stats"
    /\ CanWrite(w)
    /\ \E n \in FaultPoints(1) :
        /\ Fault(n)
        /\ IF n >= 0
           THEN Raise(w, "OperationalError") /\ Pending(w, View(w))
           ELSE /\ Commit(w, save_sku_stats(View(w), calculate_sku_stats(View(w))))
                /\ pc' = [pc EXCEPT ![w] = "mark_task"]
                /\ UNCHANGED exc
    /\ UNCHANGED <<sel, job, pos, stats, payload, wins, losses, snap>>

\* lines 132-139: the task is marked completed
MarkTask(w) ==
    /\ pc[w] = "mark_task"
    /\ CanWrite(w)
    /\ \E n \in FaultPoints(1) :
        /\ Fault(n)
        /\ IF n >= 0
           THEN Raise(w, "OperationalError") /\ Pending(w, View(w))
           ELSE /\ _update_task(w, View(w), job[w], [status |-> "completed"])
                /\ pc' = [pc EXCEPT ![w] = "mark_job"]
                /\ UNCHANGED exc
    /\ UNCHANGED <<sel, job, pos, stats, payload, wins, losses, snap>>

\* UPDATE import_jobs SET status = s WHERE id = j
SetJobStatus(v, j, s) ==
    IF j \in DOMAIN v.jobs THEN [v EXCEPT !.jobs[j].status = s] ELSE v

\* lines 142-147: the job is marked completed
MarkJob(w) ==
    /\ pc[w] = "mark_job"
    /\ CanWrite(w)
    /\ \E n \in FaultPoints(1) :
        /\ Fault(n)
        /\ IF n >= 0
           THEN Raise(w, "OperationalError") /\ Pending(w, View(w))
           ELSE /\ Commit(w, SetJobStatus(View(w), job[w], "completed"))
                /\ pc' = [pc EXCEPT ![w] = "cleanup"]
                /\ UNCHANGED exc
    /\ UNCHANGED <<sel, job, pos, stats, payload, wins, losses, snap>>

\* old_task_ids (lines 46-52): started_at grows with the task id
old_task_ids(v) ==
    {t \in DOMAIN v.tasks : Cardinality({u \in DOMAIN v.tasks : u > t}) >= max_tasks}

\* the view after the first n DELETE statements of _cleanup_old_tasks
CleanupAfter(v, n) ==
    LET old == old_task_ids(v)
        v1 == IF n >= 1 THEN [v EXCEPT !.tasks = Without(@, old)] ELSE v
        v2 == IF n >= 2 THEN [v1 EXCEPT !.jobs = Without(@, old)] ELSE v1
    IN  v2

\* _cleanup_old_tasks (lines 44-55), called at line 149; it ends _process_job
Cleanup(w) ==
    /\ pc[w] = "cleanup"
    /\ CanWrite(w)
    /\ \E n \in FaultPoints(IF old_task_ids(View(w)) = {} THEN 1 ELSE 2) :
        /\ Fault(n)
        /\ IF n >= 0
           THEN /\ Raise(w, "OperationalError")
                /\ Pending(w, CleanupAfter(View(w), n))
                /\ UNCHANGED job
           ELSE /\ IF old_task_ids(View(w)) = {}
                   THEN Pending(w, View(w))
                   ELSE Commit(w, CleanupAfter(View(w), 2))
                /\ pc' = [pc EXCEPT ![w] = "poll"]
                /\ job' = [job EXCEPT ![w] = 0]
                /\ UNCHANGED exc
    /\ UNCHANGED <<sel, pos, stats, payload, wins, losses, snap>>

\* a handler that leaves the error text out
FailedPatchNoError(e) == [status |-> "failed"]

\* the fields the handler sets on the task (line 152)
FailedPatch(e) == [status |-> "failed", error |-> e]

\* line 152: the handler writes the failure to the task
HandlerTask(w) ==
    /\ pc[w] = "except"
    /\ CanWrite(w)
    /\ _update_task(w, View(w), job[w], FailedPatch(exc[w]))
    /\ pc' = [pc EXCEPT ![w] = "except_job"]
    /\ UNCHANGED <<sel, job, pos, stats, exc, faults, payload, wins, losses, snap>>

\* lines 153-158: the handler marks the job failed and commits
HandlerJob(w) ==
    /\ pc[w] = "except_job"
    /\ CanWrite(w)
    /\ Commit(w, SetJobStatus(View(w), job[w], "failed"))
    /\ pc' = [pc EXCEPT ![w] = "poll"]
    /\ job' = [job EXCEPT ![w] = 0]
    /\ exc' = [exc EXCEPT ![w] = NoError]
    /\ UNCHANGED <<sel, pos, stats, faults, payload, wins, losses, snap>>

\* the stage of _process_job worker w is in: inside an import, or at the
\* statement that follows it
Stage(w) ==
    IF pc[w] = "orders" /\ pos[w] >= Len(payload[job[w]].orders_file)
    THEN "orders_done"
    ELSE IF pc[w] = "aftersales" /\ pos[w] >= Len(payload[job[w]].aftersales_file)
    THEN "aftersales_done"
    ELSE pc[w]

\* the call of _process_job that has returned when the worker goes from
\* one position to the next
Returned(from, to) ==
    CASE from = "orders" /\ to \in {"aftersales", "stats", "mark_task"} -> <<"import_orders">>
      [] from = "aftersales" /\ to \in {"stats", "mark_task"} -> <<"import_aftersales">>
      [] from = "stats" /\ to = "mark_task"                 -> <<"save_sku_stats">>
      [] from = "mark_task" /\ to = "mark_job"              -> <<"_update_task">>
      [] from = "mark_job" /\ to = "cleanup"                -> <<"update_job">>
      [] OTHER                                              -> <<>>

\* the exception that reaches the except clause of _process_job (line 150),
\* the claim that succeeded and the call that returned in this step
Record(w) ==
    /\ raised' = IF pc'[w] = "except" /\ pc[w] # "except"
              THEN [raised EXCEPT ![job[w]] = [error |-> exc'[w], stage |-> Stage(w)]]
              ELSE raised
    /\ log' = [ claims |-> IF pc[w] = "claim" /\ pc'[w] = "refresh"
                           THEN Append(log.claims, sel[w]) ELSE log.claims,
                stages |-> IF job[w] # 0
                           THEN [log.stages EXCEPT ![job[w]] = @ \o Returned(pc[w], pc'[w])]
                           ELSE log.stages ]
    /\ UNCHANGED <<snapshot_vars, stop_event, scan_vars>>

\* one step of run_forever (lines 164-174)
WorkerStep(w) ==
    \/ ClaimSelect(w) /\ Record(w)
    \/ ClaimUpdate(w) /\ Record(w)
    \/ ClaimRefresh(w) /\ Record(w)
    \/ StartJob(w) /\ Record(w)
    \/ OrderBatch(w) /\ Record(w)
    \/ OrdersDone(w) /\ Record(w)
    \/ AfterSaleBatch(w) /\ Record(w)
    \/ AfterSalesDone(w) /\ Record(w)
    \/ Recalculate(w) /\ Record(w)
    \/ MarkTask(w) /\ Record(w)
    \/ MarkJob(w) /\ Record(w)
    \/ Cleanup(w) /\ Record(w)
    \/ HandlerTask(w) /\ Record(w)
    \/ HandlerJob(w) /\ Record(w)

(***************************************************************************)
(* The queue: uploads and two workers on one store.                        *)
(***************************************************************************)
QueueOrdersFile == <<OrderRow("A", "shipped", "P2", RawX, TRUE, "1", TRUE)>>
QueueAfterSalesFile == <<AfterSaleRow("R1", "A", RawX, "return_refund", "refund_success", "no_reason")>>

InitWorkers ==
    /\ tx = [w \in Workers |-> EmptyStore]
    /\ dirty = [w \in Workers |-> FALSE]
    /\ pc = [w \in Workers |-> "poll"]
    /\ sel = [w \in Workers |-> 0]
    /\ job = [w \in Workers |-> 0]
    /\ pos = [w \in Workers |-> 0]
    /\ stats = [w \in Workers |-> ZeroStats]
    /\ exc = [w \in Workers |-> NoError]
    /\ faults = 0
    /\ wins = [j \in 1..NumJobs + 1 |-> 0]
    /\ losses = [j \in 1..NumJobs + 1 |-> 0]
    /\ snap = EmptyStore
    /\ raised = [j \in 1..NumJobs + 1 |-> NotRaised]
    /\ log = [claims |-> <<>>, stages |-> [j \in 1..NumJobs + 1 |-> <<>>]]
    /\ computed = EmptyFn
    /\ manual = EmptyFn
    /\ stop_event = FALSE
    /\ clock = 1
    /\ scan = [s \in Scans |-> IdleScan]
    /\ remote = [id \in 1..MaxOrders |-> <<>>]

Init ==
    /\ InitWorkers
    /\ db = EmptyStore
    /\ scan_orders = <<>>
    /\ payload = EmptyFn

\* upload_orders (upload.py lines 65-114)
upload_orders(f) ==
    /\ Enqueue("orders", f, <<>>)
    /\ snap' = db

\* upload_aftersales (upload.py lines 117-160)
upload_aftersales(f) ==
    /\ Enqueue("aftersales", <<>>, f)
    /\ snap' = db

\* upload_all_and_calculate (upload.py lines 163-212)
upload_all_and_calculate(of, af) ==
    /\ Enqueue("all", of, af)
    /\ UNCHANGED snap

Next ==
    \/ upload_all_and_calculate(QueueOrdersFile, QueueAfterSalesFile)
    \/ \E w \in Workers : WorkerStep(w)

Spec == Init /\ [][Next]_vars

(***************************************************************************)
(* The importer: one worker, one uploaded file of any content on a store   *)
(* that earlier imports filled, and the same file uploaded once more.      *)
(***************************************************************************)
OrderFiles == SeqsUpTo(OrderRows, MaxRows)
AfterSaleFiles == SeqsUpTo(AfterSaleRows, MaxRows)

\* the store after an import of order A with a line of X
StoreA ==
    OrderBatchAfter(EmptyStore, <<OrderRow("A", "shipped", "P2", RawX, TRUE, "1", TRUE)>>, 3)

\* the store after imports of A and B with lines and of a return of A
StoreAB ==
    AfterSaleBatchAfter(
        OrderBatchAfter(EmptyStore,
                        << OrderRow("A", "shipped", "P2", RawX, TRUE, "1", TRUE),
                           OrderRow("A", "shipped", "P2", RawY, TRUE, "1", TRUE),
                           OrderRow("B", "to_ship", "P1", RawY, TRUE, "1", TRUE) >>, 3),
        <<AfterSaleRow("R1", "A", RawX, "return_refund", "refund_success", "no_reason")>>, 2)

\* StoreA after the recalculation that ends its import: a snapshot row of X
StoreAStats == save_sku_stats(StoreA, calculate_sku_stats(StoreA))

ImportStores == {EmptyStore, StoreA, StoreAB, StoreAStats}

InitImport ==
    /\ InitWorkers
    /\ scan_orders = <<>>
    /\ db \in ImportStores
    /\ payload = EmptyFn

FirstOrders ==
    /\ payload = EmptyFn
    /\ \E f \in OrderFiles : upload_orders(f)

FirstAfterSales ==
    /\ payload = EmptyFn
    /\ \E f \in AfterSaleFiles : upload_aftersales(f)

\* the tables the importer writes
ImportTables(v) == <<v.orders, v.order_skus, v.after_sales>>

\* the same file is uploaded again once its first job has completed
UploadAgain ==
    /\ DOMAIN payload = {1}
    /\ 1 \in DOMAIN db.jobs
    /\ db.jobs[1].status = "completed"
    /\ pc["w1"] = "poll"
    /\ Enqueue(payload[1].task_type, payload[1].orders_file, payload[1].aftersales_file)
    /\ snap' = db

NextImport ==
    \/ FirstOrders
    \/ FirstAfterSales
    \/ UploadAgain
    \/ WorkerStep("w1")

SpecImport == InitImport /\ [][NextImport]_vars

(***************************************************************************)
(* The queue with one worker that keeps running: run_forever (lines        *)
(* 164-174) takes its next step whenever it has one.                       *)
(***************************************************************************)
NextLive ==
    \/ upload_all_and_calculate(QueueOrdersFile, QueueAfterSalesFile)
    \/ WorkerStep("w1")

SpecLive == Init /\ [][NextLive]_vars /\ WF_vars(WorkerStep("w1"))

(***************************************************************************)
(* The queue with one worker and the shutdown of the application.          *)
(***************************************************************************)
\* an order file whose row has a quantity that int() rejects
BadOrdersFile == <<OrderRow("B", "to_ship", "P1", RawY, TRUE, "x", TRUE)>>

\* lifespan after the yield (main.py lines 36-44): worker.stop() sets the
\* stop event and worker_task.cancel() follows with no await in between, so
\* CancelledError is thrown into run_forever at the await it is suspended at.
\* CancelledError is not an Exception: neither the handler of _process_job
\* (line 150) nor that of run_forever (line 172) catches it, and the session
\* is closed with its uncommitted changes.
Shutdown ==
    /\ ~stop_event
    /\ stop_event' = TRUE
    /\ pc' = [w \in Workers |-> "cancelled"]
    /\ tx' = [w \in Workers |-> EmptyStore]
    /\ dirty' = [w \in Workers |-> FALSE]
    /\ UNCHANGED <<db, sel, job, pos, stats, exc, faults, payload, wins, losses, snap,
                   raised, log, snapshot_vars, scan_vars>>

NextStop ==
    \/ \E of \in {QueueOrdersFile, BadOrdersFile} :
          upload_all_and_calculate(of, QueueAfterSalesFile)
    \/ WorkerStep("w1")
    \/ Shutdown

SpecStop == Init /\ [][NextStop]_vars /\ WF_vars(WorkerStep("w1"))

(***************************************************************************)
(* Properties of the job queue.                                            *)
(***************************************************************************)
\* the workers that hold job j: the claim has returned it or is returning it
Holders(j) == {w \in Workers : job[w] = j \/ (pc[w] = "refresh" /\ sel[w] = j)}

\* C1: of the claims that workers attempt on one queued job exactly one
\* succeeds and every other one returns nothing, and no job is ever held by
\* two workers
ClaimExclusive ==
    \A j \in JobIds :
        /\ wins[j] <= 1
        /\ (losses[j] > 0 /\ j \in DOMAIN db.jobs) => wins[j] = 1
        /\ Cardinality(Holders(j)) <= 1

\* two workers selected job 1 while it was queued; one claim won, one lost
ClaimRaceSeen == wins[1] = 1 /\ losses[1] = 1 /\ 1 \in DOMAIN db.jobs

JobTransitions ==
    {<<"queued", "processing">>, <<"processing", "completed">>, <<"processing", "failed">>}

\* C2: a job changes its status only from queued to processing and from
\* processing to completed or failed; completed and failed are final
JobStateMachine ==
    [][\A j \in DOMAIN db.jobs \cap DOMAIN db'.jobs :
          db.jobs[j].status # db'.jobs[j].status
              => <<db.jobs[j].status, db'.jobs[j].status>> \in JobTransitions]_vars

Terminal(j) == j \in DOMAIN db.jobs /\ db.jobs[j].status \in {"completed", "failed"}

\* C4: while a worker keeps running every queued job is claimed in the end
\* and reaches completed or failed
EveryJobEnds ==
    \A j \in JobIds : (j \in DOMAIN db.jobs /\ db.jobs[j].status = "queued") ~> Terminal(j)

(***************************************************************************)
(* Properties of the importer.                                             *)
(***************************************************************************)
RECURSIVE OrdersApplied(_, _, _, _)
\* the store after the batches of rows p+1..n of an order file, each whole
OrdersApplied(v, file, p, n) ==
    IF p >= n THEN v
    ELSE OrdersApplied(OrderBatchAfter(v, BatchAt(file, p), 3), file,
                       p + Len(BatchAt(file, p)), n)

RECURSIVE AfterSalesApplied(_, _, _, _)
AfterSalesApplied(v, file, p, n) ==
    IF p >= n THEN v
    ELSE AfterSalesApplied(AfterSaleBatchAfter(v, BatchAt(file, p), 2), file,
                           p + Len(BatchAt(file, p)), n)

\* the created counter the task of job j reports for its file
Created(j) ==
    IF payload[j].task_type = "orders"
    THEN db.tasks[j].order_stats.created
    ELSE db.tasks[j].aftersale_stats.created

SecondPassDone == 2 \in DOMAIN db.jobs /\ db.jobs[2].status = "completed"

\* C5: a second import of the same order file or after-sale file leaves the
\* imported tables as the first import left them, and reports created = 0
ReimportIdempotent ==
    SecondPassDone =>
        /\ ImportTables(db) = ImportTables(snap)
        /\ 2 \in DOMAIN db.tasks => Created(2) = 0

\* an order file of more than one batch with lines went through twice
ReimportSeen ==
    /\ SecondPassDone
    /\ 1 \in DOMAIN db.tasks /\ 2 \in DOMAIN db.tasks
    /\ payload[2].task_type = "orders"
    /\ Len(payload[2].orders_file) > BATCH_SIZE
    /\ db.tasks[1].order_stats.created > 0
    /\ db.tasks[2].order_stats.updated > 1
    /\ db.order_skus["A"] # <<>>

\* worker w has just imported a batch of its order file
OrderBatchDone(w) == pc[w] = "orders" /\ pos'[w] > pos[w]

CurrentOrderBatch(w) == BatchAt(payload[job[w]].orders_file, pos[w])

\* every row of the batch carries the one order number o
OneKey(rows, o) == \A i \in 1..Len(rows) : rows[i].oid = o

\* C6: a batch of k >= 2 rows that all carry one order number the store
\* does not hold yet counts created = 1 and updated = k - 1
DuplicateKeyCounted ==
    [][\A w \in Workers : OrderBatchDone(w) =>
          LET rows == CurrentOrderBatch(w)
          IN  \A o \in OrderIds \ DOMAIN db.orders :
                (Len(rows) >= 2 /\ OneKey(rows, o)) =>
                    /\ stats'[w].created = stats[w].created + 1
                    /\ stats'[w].updated = stats[w].updated + Len(rows) - 1]_vars

BatchOrderIds(rows) == {rows[i].oid : i \in {k \in 1..Len(rows) : HasKey(rows[k].oid)}}

\* C7: after a batch the stored lines of every order of the batch are the
\* lines the batch lists for it, in number and content
LinesReplaced ==
    [][\A w \in Workers : OrderBatchDone(w) =>
          LET rows == CurrentOrderBatch(w)
          IN  \A o \in BatchOrderIds(rows) :
                db'.order_skus[o] = LinesOf(SkuRecords(rows), o)]_vars

\* worker w handles an exception that a batch of an import raised
BatchFailed(w) ==
    /\ pc[w] \in {"except", "except_job"}
    /\ raised[job[w]].stage \in {"orders", "aftersales"}

\* C8: when a batch raises, none of its writes is in the store afterwards
BatchAllOrNothing ==
    [][\A w \in Workers : BatchFailed(w) => ImportTables(db') = ImportTables(db)]_vars

\* what the batches before row pos[w] of the file of w's job make of the
\* store the job started on
EarlierBatches(w) ==
    IF raised[job[w]].stage = "orders"
    THEN OrdersApplied(snap, payload[job[w]].orders_file, 0, pos[w])
    ELSE AfterSalesApplied(snap, payload[job[w]].aftersales_file, 0, pos[w])

\* C9: when a batch of an import raises, the exception reaches the caller
\* and the store holds the writes of all batches before it, and only those
EarlierBatchesCommitted ==
    \A w \in Workers :
        (pc[w] = "except" /\ raised[job[w]].stage \in {"orders", "aftersales"}) =>
            /\ exc[w] # NoError
            /\ ImportTables(db) = ImportTables(EarlierBatches(w))

\* the second batch of an order file raised after the first changed the store
LaterBatchFailed ==
    /\ pc["w1"] = "except"
    /\ raised[job["w1"]].stage = "orders"
    /\ pos["w1"] >= BATCH_SIZE
    /\ ImportTables(db) # ImportTables(snap)

(***************************************************************************)
(* The statistics: the recalculation endpoint on a store of any content.   *)
(***************************************************************************)
StoredOrders == [order_status : {2, 3}, pay_time : BOOLEAN, province_name : {"P1"},
                 is_signed : BOOLEAN]

StoredLine(code) == [sku_code |-> code, sku_code_raw |-> code, quantity |-> 1]

StoredLines ==
    {<<>>, <<StoredLine(SkuX)>>, <<StoredLine(SkuY)>>, <<StoredLine(SkuX), StoredLine(SkuY)>>}

StoredAfterSales(id) ==
    IF id = "R1"
    THEN [order_id : OrderIds, sku_code : SkuCodes \cup {NullCode}, aftersale_type : {1, 2},
          aftersale_status : {2, 5}, reason_text : {"bad_quality"},
          province_name : {Null}]
    ELSE [order_id : OrderIds, sku_code : {SkuX}, aftersale_type : {1},
          aftersale_status : {5}, reason_text : {"no_reason"}, province_name : {Null}]

\* the stores imports leave: lines belong to stored orders, an after-sale
\* row may name an order that is not stored
StatsStores ==
    {v \in [ jobs : {EmptyFn}, tasks : {EmptyFn},
             orders : UNION {[S -> StoredOrders] : S \in SUBSET OrderIds},
             order_skus : [OrderIds -> StoredLines],
             after_sales : UNION {{f \in [T -> UNION {StoredAfterSales(a) : a \in T}] :
                                      \A a \in T : f[a] \in StoredAfterSales(a)} :
                                  T \in SUBSET AfterSaleIds},
             sku_stats : {EmptyFn} ] :
        \A o \in OrderIds \ DOMAIN v.orders : v.order_skus[o] = <<>>}

InitStats ==
    /\ InitWorkers
    /\ scan_orders = <<>>
    /\ db \in StatsStores
    /\ payload = EmptyFn

\* POST /sku/calculate (api/stats.py lines 65-85)
RecalculateApi ==
    /\ db' = save_sku_stats(db, calculate_sku_stats(db))
    /\ computed' = calculate_sku_stats(db)
    /\ UNCHANGED <<tx, dirty, pc, sel, job, pos, stats, exc, faults, payload, wins, losses,
                   snap, raised, log, manual, stop_event, scan_vars>>

NextStats == RecalculateApi

SpecStats == InitStats /\ [][NextStats]_vars

\* C10: every computed and every saved snapshot row has
\* signed_count >= signed_return_count
SignedCountCoversReturns ==
    /\ \A code \in DOMAIN calculate_sku_stats(db) :
          calculate_sku_stats(db)[code].signed_count
              >= calculate_sku_stats(db)[code].signed_return_count
    /\ \A code \in DOMAIN db.sku_stats :
          db.sku_stats[code].signed_count >= db.sku_stats[code].signed_return_count

\* a saved row counts a signed return of an order that has no line of the code
ReturnWithoutLine ==
    /\ SkuX \in DOMAIN db.sku_stats
    /\ db.sku_stats[SkuX].signed_return_count >= 1
    /\ SignedOrderSku(db, SkuX) = {}

(***************************************************************************)
(* The snapshot table under the stats API: recalculations whose query      *)
(* results are drawn from QueryCounts, and manual rates.                    *)
(***************************************************************************)
\* signed_return_count and signed_count of one code, below, at and above
\* MIN_ORDERS_FOR_RATE (C10: the first never exceeds the second)
SignedPairs == {<<0, 0>>, <<3, 9>>, <<3, 10>>, <<1, 12>>, <<3, 12>>}

\* the five counts the queries of calculate_sku_stats (lines 37-255) give for
\* one code: pending, in transit, after-sale pending, signed returns, signed
QueryCounts ==
    {<<c[1], c[2], c[3], rs[1], rs[2]>> :
        c \in {<<0, 0, 0>>, <<2, 0, 0>>, <<0, 4, 1>>, <<2, 4, 1>>}, rs \in SignedPairs}

\* return_rate of PUT /sku/{sku_code}/return-rate, 0 <= r <= 1, in rate units
ManualRates == {0, 5000, RATE_UNIT}

InitSnapshot ==
    /\ InitWorkers
    /\ scan_orders = <<>>
    /\ db = EmptyStore
    /\ payload = EmptyFn

\* POST /sku/calculate (api/stats.py lines 65-85) when the tables hold lines
\* of one code with the counts q
CalculateFor(code, q) ==
    LET stats_list == [c \in {code} |-> StatsRow(q[1], q[2], q[3], q[4], q[5], 0)]
    IN  /\ db' = save_sku_stats(db, stats_list)
        /\ computed' = stats_list
        /\ manual' = [c \in DOMAIN manual |->
                         IF c = code /\ manual[c].runs < MaxRuns
                         THEN [manual[c] EXCEPT !.runs = @ + 1] ELSE manual[c]]
        /\ UNCHANGED <<tx, dirty, pc, sel, job, pos, stats, exc, faults, payload, wins,
                       losses, snap, raised, log, stop_event, scan_vars>>

\* PUT /sku/{sku_code}/return-rate (api/stats.py lines 86-107): 404 and no
\* change for a code without a snapshot row
UpdateReturnRate(code, return_rate) ==
    /\ db' = update_return_rate(db, code, return_rate)
    /\ manual' = IF code \in DOMAIN db.sku_stats
                 THEN [c \in DOMAIN manual \cup {code} |->
                          IF c = code THEN [rate |-> return_rate, runs |-> 0]
                          ELSE manual[c]]
                 ELSE manual
    /\ UNCHANGED <<tx, dirty, pc, sel, job, pos, stats, exc, faults, payload, wins,
                   losses, snap, raised, log, computed, stop_event, scan_vars>>

NextSnapshot ==
    \/ \E code \in SkuCodes, q \in QueryCounts : CalculateFor(code, q)
    \/ \E code \in SkuCodes, r \in ManualRates : UpdateReturnRate(code, r)

SpecSnapshot == InitSnapshot /\ [][NextSnapshot]_vars

\* the distance of x from zero
Abs(x) == IF x >= 0 THEN x ELSE -x

\* C11: the computed rate of a code (the rate of its row unless a manual rate
\* was set) is, with at least 10 signed orders, the ratio
\* signed_return_count / signed_count rounded to four decimals, and is 0.3
\* with fewer than 10
ReturnRatePolicy ==
    \A code \in DOMAIN db.sku_stats :
        LET row == db.sku_stats[code]
        IN  ~row.is_rate_manual =>
                IF row.signed_count >= 10
                THEN 2 * Abs(10000 * row.signed_return_count
                             - row.estimated_return_rate * row.signed_count)
                         <= row.signed_count
                ELSE row.estimated_return_rate = 3000

\* C11 as stated: with at least 10 signed orders the rate is the ratio itself
ReturnRateExact ==
    \A code \in DOMAIN db.sku_stats :
        LET row == db.sku_stats[code]
        IN  (~row.is_rate_manual /\ row.signed_count >= 10) =>
                row.estimated_return_rate * row.signed_count
                    = 10000 * row.signed_return_count

\* one code has 12 signed orders and 3 returns, the other 9 and 3
BothSampleSizes ==
    /\ DOMAIN db.sku_stats = SkuCodes
    /\ \A code \in SkuCodes : ~db.sku_stats[code].is_rate_manual
    /\ db.sku_stats[SkuX].signed_count = 12
    /\ db.sku_stats[SkuX].signed_return_count = 3
    /\ db.sku_stats[SkuX].estimated_return_rate = 2500
    /\ db.sku_stats[SkuY].signed_count = 9
    /\ db.sku_stats[SkuY].signed_return_count = 3

\* the five counts of a row
Counts(row) ==
    <<row.pending_ship_count, row.in_transit_count, row.aftersale_pending_count,
      row.signed_return_count, row.signed_count>>

\* C12: a rate set by update_return_rate stays the rate of the row through
\* every later recalculation, and the five counts of a recalculated row are
\* the newly computed ones
ManualRateDurable ==
    /\ \A code \in DOMAIN manual :
          /\ code \in DOMAIN db.sku_stats
          /\ db.sku_stats[code].is_rate_manual
          /\ db.sku_stats[code].estimated_return_rate = manual[code].rate
    /\ \A code \in DOMAIN computed :
          Counts(db.sku_stats[code]) = Counts(computed[code])

\* a code was recalculated twice after its rate was set to 0.5, the last time
\* with new counts and a computed rate of 0.25
RecalculatedAfterOverride ==
    /\ SkuX \in DOMAIN manual
    /\ manual[SkuX].rate = 5000
    /\ manual[SkuX].runs >= 2
    /\ SkuX \in DOMAIN computed
    /\ computed[SkuX].estimated_return_rate = 2500
    /\ computed[SkuX].pending_ship_count = 2

\* C13: every snapshot row has
\* stock_gap = pending_ship_count - aftersale_pending_count - in_transit_return_estimate
StockGapInvariant ==
    \A code \in DOMAIN db.sku_stats :
        db.sku_stats[code].stock_gap
            = db.sku_stats[code].pending_ship_count
              - db.sku_stats[code].aftersale_pending_count
              - db.sku_stats[code].in_transit_return_estimate

\* a row with a manual rate and a row with a computed rate, both with a
\* positive estimate, the first with a negative gap
NegativeGapSeen ==
    /\ DOMAIN db.sku_stats = SkuCodes
    /\ db.sku_stats[SkuX].is_rate_manual
    /\ db.sku_stats[SkuX].in_transit_return_estimate > 0
    /\ db.sku_stats[SkuX].stock_gap < 0
    /\ ~db.sku_stats[SkuY].is_rate_manual
    /\ db.sku_stats[SkuY].in_transit_return_estimate > 0

\* C14: while the application is not shut down, every queued job is claimed
\* in the end, whatever jobs failed and whatever claims raised before
QueuedJobClaimed ==
    \A j \in JobIds :
        (j \in DOMAIN db.jobs /\ db.jobs[j].status = "queued")
            ~> (stop_event \/ j \notin DOMAIN db.jobs \/ db.jobs[j].status # "queued")

\* job 1 failed on a file that does not parse, a claim raised a store error,
\* and job 2 was claimed and completed afterwards
ClaimedAfterErrors ==
    /\ ~stop_event
    /\ faults = 1
    /\ raised[1].error = "ValueError"
    /\ raised[2] = NotRaised
    /\ 1 \in DOMAIN db.jobs /\ db.jobs[1].status = "failed"
    /\ 2 \in DOMAIN db.jobs /\ db.jobs[2].status = "completed"

\* C15: the job a worker is processing when the shutdown is requested reaches
\* completed or failed
CurrentJobFinished ==
    \A j \in JobIds : (stop_event /\ job["w1"] = j) ~> Terminal(j)

\* C16, for behaviours without store errors: the step that ends a job leaves
\* at most max_tasks task records, the ones with the latest start times, and
\* no job whose task the step pruned
TasksAged ==
    [][ \A w \in Workers :
          (faults' = 0 /\ job[w] # 0 /\ job'[w] = 0) =>
              /\ Cardinality(DOMAIN db'.tasks) <= max_tasks
              /\ \A t \in DOMAIN db.tasks \ DOMAIN db'.tasks :
                    /\ \A u \in DOMAIN db'.tasks : t < u
                    /\ t \notin DOMAIN db'.jobs ]_vars

(***************************************************************************)
(* One scan on an orders table the importer writes to, and two scans at    *)
(* the same time.                                                          *)
(***************************************************************************)
\* the orders the scans start on: order A was never checked; order B was
\* never checked, or was checked before the clock started, or has no
\* tracking number, or is not shipped yet, or is signed
ScanTables ==
    {<<a, b>> : a \in {NewOrder("A", 0)},
                b \in {NewOrder("B", 0),
                       [NewOrder("B", 0) EXCEPT !.logistics_checked = TRUE,
                                                !.logistics_status_desc = "in_transit"],
                       [NewOrder("B", 0) EXCEPT !.logistics_code = ""],
                       [NewOrder("B", 0) EXCEPT !.order_status = 2],
                       [NewOrder("B", 0) EXCEPT !.is_signed = TRUE,
                                                !.sign_time = TRUE,
                                                !.logistics_checked = TRUE,
                                                !.logistics_status_desc = "signed"]}}

\* the store of the statistics for the orders of a table: A and B each have
\* a line of X, and the status and the signed mark of the table
ScanStore(table) ==
    LET v == OrderBatchAfter(EmptyStore,
                 << OrderRow("A", "shipped", "P1", RawX, TRUE, "1", TRUE),
                    OrderRow("B", "shipped", "P1", RawX, TRUE, "1", TRUE) >>, 3)
    IN  [v EXCEPT !.orders =
            [o \in DOMAIN v.orders |->
                LET row == table[CHOOSE id \in DOMAIN table : table[id].order_id = o]
                IN  [v.orders[o] EXCEPT !.order_status = row.order_status,
                                        !.is_signed = row.is_signed]]]

\* limit of POST /check-all: 0 is no limit
Limits == {0, 1, 2}

InitScan ==
    /\ InitWorkers
    /\ payload = EmptyFn
    /\ scan_orders \in ScanTables
    /\ db = ScanStore(scan_orders)

\* a step of scan s, started with one of the limits
ScanStepOf(s, limits) ==
    \/ \E limit \in limits : check_all_logistics(s, limit)
    \/ SelectBatch(s)
    \/ BeginOrder(s)
    \/ FinishOrder(s)
    \/ FinishScan(s)

ScanStep(s) == ScanStepOf(s, Limits)

NextScan ==
    \/ ScanStep("s1")
    \/ Tick
    \/ ImportInserts
    \/ ImportUpdates

SpecScan == InitScan /\ [][NextScan]_vars

\* two scans without limit on a table whose order B was never checked or was
\* checked before the clock started
InitScans ==
    /\ InitScan
    /\ scan_orders[2].logistics_code # ""
    /\ scan_orders[2].order_status = 3
    /\ ~scan_orders[2].is_signed

NextScans ==
    \/ \E s \in Scans : ScanStepOf(s, {0})
    \/ Tick
    \/ ImportUpdates

SpecScans == InitScans /\ [][NextScans]_vars

\* the calls of check_signed that scan s made for order id
CallsBy(s, id) == {k \in 1..Len(remote[id]) : remote[id][k][1] = s}

\* the orders of the loaded batch that the for loop has not reached
Ahead(r) ==
    {r.orders[k].id : k \in (IF r.pc = "row" THEN r.idx ELSE r.idx + 1)..Len(r.orders)}

CursorOk(s) ==
    /\ \A id \in Ahead(scan[s]) : id > scan[s].last_id
    /\ \A i, j \in 1..Len(scan[s].seen) : i < j => scan[s].seen[i] < scan[s].seen[j]
    /\ \A id \in DOMAIN remote : Cardinality(CallsBy(s, id)) <= 1

\* C17: in a scan the cursor never decreases, the orders of a batch that
\* are still to come lie beyond the cursor, no order is reached twice by the
\* for loop and none is sent to check_signed twice
ScannerCursor ==
    [][ \A s \in Scans : scan'[s].last_id >= scan[s].last_id /\ CursorOk(s)' ]_vars

\* the scan checked order 1 at time 1, and reached order 3, which the
\* importer inserted at time 2, in its second batch
SecondBatchSeen ==
    /\ scan["s1"].seen = <<1, 2, 3>>
    /\ scan["s1"].last_id = 3
    /\ remote[1] = << <<"s1", 1>> >>
    /\ Len(scan_orders) = 3
    /\ scan_orders[3].updated_at = 2

\* C18: the step in which check_signed reports a failure for an order
\* leaves the orders table as it is
FailureLeavesRow ==
    [][ \A s \in Scans :
          (scan[s].pc = "remote" /\ scan'[s].pc # "remote" /\ scan'[s].reply = "error")
              => scan_orders' = scan_orders ]_vars

RefreshedByOther(s, id, interval_threshold) ==
    /\ \E k \in 1..Len(remote[id]) :
          remote[id][k][1] # s /\ remote[id][k][2] >= interval_threshold
    /\ DoubleCheck(scan_orders[id], interval_threshold)

\* C20, for behaviours without store errors: a scan does not call
\* check_signed for an order that another scan has refreshed within the
\* interval
NoRedundantCheck ==
    [][ \A s \in Scans :
          (faults = 0 /\ scan[s].pc = "row" /\ scan'[s].pc = "remote")
              => ~RefreshedByOther(s, scan[s].orders[scan[s].idx].id,
                                   scan[s].interval_threshold) ]_vars

\* C21: a scan is marked completed only by the step that follows its last
\* row, which computes and saves the snapshots of the store as the rows left
\* it, the one recalculation of the scan; a scan is failed exactly when an
\* exception left the loop or the recalculation, and a scan that is still
\* processing has not recalculated
ScanCompletion ==
    [][ \A s \in Scans :
          /\ scan'[s].recalcs <= 1
          /\ scan'[s].status = "processing" => scan'[s].recalcs = 0
          /\ scan'[s].status = "failed" <=> scan'[s].error # NoError
          /\ (scan[s].status # "completed" /\ scan'[s].status = "completed") =>
                /\ scan[s].pc = "stats"
                /\ scan[s].orders = <<>>
                /\ scan'[s].recalcs = 1
                /\ scan'[s].error = NoError
                /\ db'.sku_stats = save_sku_stats(db, calculate_sku_stats(db)).sku_stats
          /\ scan[s].status \in {"completed", "failed"} => scan'[s] = scan[s] ]_vars

\* a scan whose commit failed for one order and succeeded for another, signed
\* one, is completed, and the snapshot of X counts one order in transit
PartialScanCompleted ==
    /\ scan["s1"].status = "completed"
    /\ faults = 1
    /\ scan["s1"].checked_count = 1
    /\ scan["s1"].signed_count = 1
    /\ Len(scan["s1"].seen) = 2
    /\ SkuX \in DOMAIN db.sku_stats
    /\ db.sku_stats[SkuX].in_transit_count = 1

(***************************************************************************)
(* The queue with jobs of every type and two workers.                      *)
(***************************************************************************)
NextQueue ==
    \/ upload_orders(QueueOrdersFile)
    \/ upload_aftersales(QueueAfterSalesFile)
    \/ upload_all_and_calculate(QueueOrdersFile, QueueAfterSalesFile)
    \/ \E w \in Workers : WorkerStep(w)

SpecQueue == Init /\ [][NextQueue]_vars

\* the calls of _process_job that return, in their order, for a job of type ty
StagesOf(ty) ==
    (IF NeedsOrders(ty) THEN <<"import_orders">> ELSE <<>>)
    \o (IF NeedsAfterSales(ty) THEN <<"import_aftersales">> ELSE <<>>)
    \o <<"save_sku_stats", "_update_task", "update_job">>

\* job j is stored as completed in store v
Completed(v, j) == j \in DOMAIN v.jobs /\ v.jobs[j].status = "completed"

\* C22: when a job becomes completed, the imports of its type have returned,
\* orders before after-sales, then the snapshots were saved, then the task
\* was marked; the task, when it is still stored, is completed and carries
\* the counters of each import of the type
JobCompletedLast ==
    [][ \A j \in JobIds :
          (Completed(db', j) /\ ~Completed(db, j)) =>
              /\ log'.stages[j] = StagesOf(payload[j].task_type)
              /\ j \in DOMAIN db'.tasks =>
                    /\ db'.tasks[j].status = "completed"
                    /\ NeedsOrders(payload[j].task_type)
                          => db'.tasks[j].order_stats # NoStats
                    /\ NeedsAfterSales(payload[j].task_type)
                          => db'.tasks[j].aftersale_stats # NoStats ]_vars

\* a job of type all is completed with its task while the other worker
\* processes a job of after-sales alone
AllJobCompleted ==
    /\ Completed(db, 1)
    /\ payload[1].task_type = "all"
    /\ 1 \in DOMAIN db.tasks /\ db.tasks[1].status = "completed"
    /\ db.tasks[1].order_stats.created = 1
    /\ db.tasks[1].aftersale_stats.created = 1
    /\ SkuX \in DOMAIN db.sku_stats
    /\ 2 \in DOMAIN payload /\ payload[2].task_type = "aftersales"
    /\ \E w \in Workers : job[w] = 2

\* the jobs of a sequence are in the order of their creation
InCreationOrder(q) == \A i, k \in 1..Len(q) : i < k => q[i] < q[k]

\* C23: the job a claim selects is the queued job created first, the job a
\* successful claim returns is the selected one, and the jobs enter
\* processing in the order of their creation
FifoClaim ==
    [][ /\ \A w \in Workers :
            /\ (sel[w] = 0 /\ sel'[w] # 0) =>
                  /\ sel'[w] \in Queued(db)
                  /\ \A j \in Queued(db) : sel'[w] <= j
            /\ (job[w] = 0 /\ job'[w] # 0) => job'[w] = sel[w]
            /\ (pc[w] = "claim" /\ pc'[w] = "refresh") =>
                  /\ sel'[w] = sel[w]
                  /\ log'.claims = Append(log.claims, sel[w])
        /\ InCreationOrder(log'.claims) ]_vars

\* both jobs were queued when the first claim selected job 1; the claims
\* succeeded in the order 1, 2 and both jobs are being processed
BothClaimedInOrder ==
    /\ log.claims = <<1, 2>>
    /\ job["w1"] = 2 /\ job["w2"] = 1
    /\ losses[1] = 1

\* the signed orders in the window that have a line of the code
SignedWithLine(code) ==
    {o \in DOMAIN db.orders :
        /\ db.orders[o].is_signed /\ db.orders[o].pay_time
        /\ \E i \in 1..Len(db.order_skus[o]) : db.order_skus[o][i].sku_code = code}

\* the signed orders in the window that an after-sale row of the code names
SignedWithAfterSale(code) ==
    {o \in DOMAIN db.orders :
        /\ db.orders[o].is_signed /\ db.orders[o].pay_time
        /\ \E a \in DOMAIN db.after_sales :
              db.after_sales[a].order_id = o /\ db.after_sales[a].sku_code = code}

\* C24: for every code, the computed signed_count, and the saved one, is
\* the number of signed in-window orders that have a line of the code or an
\* after-sale row of the code; a code without a computed row has no such order
SignedCountIsUnion ==
    \A code \in SkuCodes :
        LET union == SignedWithLine(code) \cup SignedWithAfterSale(code)
            stats_list == calculate_sku_stats(db)
        IN  /\ IF code \in DOMAIN stats_list
               THEN stats_list[code].signed_count = Cardinality(union)
               ELSE union = {}
            /\ code \in DOMAIN db.sku_stats =>
                  db.sku_stats[code].signed_count = Cardinality(union)

\* X has one signed order with a line and two with an after-sale row, one of
\* them the order with the line: the saved signed_count is 2
OverlapCountedOnce ==
    /\ SkuX \in DOMAIN db.sku_stats
    /\ db.sku_stats[SkuX].signed_count = 2
    /\ Cardinality(SignedWithLine(SkuX)) = 1
    /\ Cardinality(SignedWithAfterSale(SkuX)) = 2

\* the step is a successful update_return_rate for the code: manual records
\* the rate of the call
UpdatedRate(code) ==
    /\ code \in DOMAIN manual'
    /\ manual'[code].runs = 0
    /\ code \notin DOMAIN manual \/ manual[code] # manual'[code]

\* C25: update_return_rate(code, r) on a stored row sets the flag and the
\* rate r, the estimate floor(in_transit_count * r) and the gap of the stored
\* counts, and leaves the five counts; no step creates a row that has the
\* flag or a recorded manual rate, so an update for a code without a row
\* changes nothing
UpdateRecomputes ==
    [][ \A code \in SkuCodes :
          /\ UpdatedRate(code) =>
                /\ code \in DOMAIN db.sku_stats
                /\ LET old == db.sku_stats[code]
                       new == db'.sku_stats[code]
                       r == manual'[code].rate
                   IN  /\ new.is_rate_manual
                       /\ new.estimated_return_rate = r
                       /\ Counts(new) = Counts(old)
                       /\ new.in_transit_return_estimate
                              = (new.in_transit_count * r) \div 10000
                       /\ new.stock_gap = old.pending_ship_count
                                          - old.aftersale_pending_count
                                          - (old.in_transit_count * r) \div 10000
          /\ (code \notin DOMAIN db.sku_stats /\ code \in DOMAIN db'.sku_stats) =>
                /\ ~db'.sku_stats[code].is_rate_manual
                /\ code \notin DOMAIN manual'
          /\ code \notin DOMAIN db'.sku_stats => code \notin DOMAIN manual' ]_vars

\* the rate of X was just set to 0.5 on a row with 4 orders in transit that
\* was computed with the rate 0.25: the estimate is 2 and the gap is -1
RateJustUpdated ==
    /\ SkuX \in DOMAIN manual /\ manual[SkuX] = [rate |-> 5000, runs |-> 0]
    /\ SkuX \in DOMAIN computed /\ computed[SkuX].estimated_return_rate = 2500
    /\ computed[SkuX].in_transit_return_estimate = 1
    /\ db.sku_stats[SkuX].in_transit_count = 4
    /\ db.sku_stats[SkuX].in_transit_return_estimate = 2
    /\ db.sku_stats[SkuX].pending_ship_count = 2
    /\ db.sku_stats[SkuX].stock_gap = -1

\* C26: in every snapshot row in_transit_return_estimate is
\* floor(in_transit_count * estimated_return_rate) of the rate stored in the
\* row, which is the manual rate when one was set
EstimateFollowsStoredRate ==
    \A code \in DOMAIN db.sku_stats :
        LET row == db.sku_stats[code]
        IN  /\ row.in_transit_return_estimate
                  = (row.in_transit_count * row.estimated_return_rate) \div 10000
            /\ code \in DOMAIN manual => row.estimated_return_rate = manual[code].rate

\* X was recalculated after its rate was set to 1: the computed entry has
\* the rate 0.25 and the estimate 1, the row has the estimate 4; Y has a
\* computed rate of 1/12, stored as 0.0833
ManualAndRoundedRates ==
    /\ DOMAIN db.sku_stats = SkuCodes
    /\ SkuX \in DOMAIN manual /\ manual[SkuX].rate = 10000 /\ manual[SkuX].runs >= 1
    /\ SkuX \in DOMAIN computed /\ computed[SkuX].in_transit_return_estimate = 1
    /\ db.sku_stats[SkuX].in_transit_return_estimate = 4
    /\ ~db.sku_stats[SkuY].is_rate_manual
    /\ db.sku_stats[SkuY].estimated_return_rate = 833
    /\ db.sku_stats[SkuY].in_transit_count = 4

\* C27: the recalculation that ends the imports of a job leaves every
\* snapshot row with the five counts and the gap of this computation
SnapshotFresh ==
    [][ \A w \in Workers :
          (pc[w] = "stats" /\ pc'[w] = "mark_task") =>
              LET stats_list == calculate_sku_stats(db')
              IN  \A code \in DOMAIN db'.sku_stats :
                    /\ code \in DOMAIN stats_list
                    /\ Counts(db'.sku_stats[code]) = Counts(stats_list[code])
                    /\ db'.sku_stats[code].stock_gap = stats_list[code].stock_gap ]_vars

\* worker w has just imported a batch of its after-sale file
AfterSaleBatchDone(w) == pc[w] = "aftersales" /\ pos'[w] > pos[w]

CurrentAfterSaleBatch(w) == BatchAt(payload[job[w]].aftersales_file, pos[w])

\* C28: after a batch of after-sale rows is imported, every stored order
\* that a return-refund row of the batch names is signed; and no step of an
\* import changes an order from signed to not signed
ReturnMarksSigned ==
    [][ /\ \A w \in Workers : AfterSaleBatchDone(w) =>
              LET rows == CurrentAfterSaleBatch(w)
              IN  \A i \in 1..Len(rows) :
                    (/\ HasKey(rows[i].aid)
                     /\ rows[i].ty = "return_refund"
                     /\ rows[i].oid \in DOMAIN db'.orders)
                        => db'.orders[rows[i].oid].is_signed
        /\ \A o \in DOMAIN db.orders :
              db.orders[o].is_signed => (o \in DOMAIN db'.orders /\ db'.orders[o].is_signed)
      ]_vars

\* an import of after-sale rows marked order B, which was stored unsigned
\* beside the signed order A, and left A signed
ReturnMarkedOrder ==
    /\ 1 \in DOMAIN payload /\ payload[1].task_type = "aftersales"
    /\ "B" \in DOMAIN snap.orders /\ ~snap.orders["B"].is_signed
    /\ snap.orders["A"].is_signed
    /\ db.orders["B"].is_signed /\ db.orders["A"].is_signed
    /\ "R2" \in DOMAIN db.after_sales /\ db.after_sales["R2"].aftersale_type = 1

\* the order the for loop of scan record r is at
CurrentOrder(r) == r.orders[r.idx]

\* C29: the threshold of a batch is now - interval at its SELECT; every
\* order of a loaded batch had, at the SELECT, a tracking number, the status
\* shipped and no signed mark, and was never checked or last updated before
\* the threshold; check_signed is called for, and the orders table is
\* changed by a scan at, an order of the loaded batch only
EligibleOnly ==
    [][ \A s \in Scans :
          /\ (scan[s].pc = "select" /\ scan'[s].pc = "row") =>
                /\ scan'[s].interval_threshold = clock - interval_minutes
                /\ \A k \in 1..Len(scan'[s].orders) :
                      scan'[s].orders[k] = Loaded(scan_orders, scan'[s].orders[k].id)
          /\ \A k \in 1..Len(scan'[s].orders) :
                LET order == scan'[s].orders[k]
                IN  /\ order.logistics_code # ""
                    /\ order.order_status = 3
                    /\ ~order.is_signed
                    /\ \/ ~order.logistics_checked
                       \/ order.updated_at < scan'[s].interval_threshold
          /\ (scan[s].pc = "row" /\ scan'[s].pc = "remote") =>
                \A id \in DOMAIN remote :
                    remote'[id] # remote[id] => id = CurrentOrder(scan[s]).id
          /\ (scan[s].pc = "remote" /\ scan'[s].pc # "remote") =>
                \A id \in DOMAIN scan_orders :
                    scan_orders'[id] # scan_orders[id] => id = CurrentOrder(scan[s]).id
          /\ (scan'[s] = scan[s] /\ remote' # remote) => \E o \in Scans : scan'[o] # scan[o]
      ]_vars

\* order 2 was checked before the clock started: the first batch, selected
\* at time 1, leaves it out, and the second batch, selected at time 2 with a
\* new threshold, holds it; check_signed was called for it at time 2
SecondThresholdUsed ==
    /\ scan["s1"].status = "processing"
    /\ scan["s1"].seen = <<1, 2>>
    /\ scan["s1"].interval_threshold = 1
    /\ remote[1] = << <<"s1", 1>> >>
    /\ remote[2] = << <<"s1", 2>> >>

\* the eligible orders beyond the cursor of scan record r at time now
Remaining(r, now) ==
    {id \in DOMAIN scan_orders :
        id > r.last_id /\ Eligible(scan_orders[id], now - interval_minutes)}

\* C30: a scan with a limit L > 0 counts at most L orders as checked or
\* skipped, and its for loop reaches at most L orders beside those whose
\* commit failed; a scan without a limit leaves its loop only when no
\* eligible order is beyond the cursor
ScanLimit ==
    [][ \A s \in Scans :
          /\ scan'[s].limit > 0 =>
                /\ scan'[s].checked_count + scan'[s].skipped_count <= scan'[s].limit
                /\ Len(scan'[s].seen) <= scan'[s].limit + faults'
          /\ (scan[s].pc = "select" /\ scan'[s].pc = "stats") =>
                \/ Remaining(scan[s], clock) = {}
                \/ scan[s].limit > 0 /\ scan[s].checked_count = scan[s].limit ]_vars

\* a scan with the limit 2 on three eligible orders is completed with two
\* orders checked, and the third is still eligible
LimitStoppedScan ==
    /\ scan["s1"].status = "completed"
    /\ scan["s1"].limit = 2
    /\ scan["s1"].checked_count = 2
    /\ scan["s1"].seen = <<1, 2>>
    /\ Remaining(scan["s1"], clock) = {3}
    /\ remote[3] = <<>>

(***************************************************************************)
(* The background task of a scan runs on the event loop until it returns:  *)
(* every await of batch_check_logistics ends (the statements of the store  *)
(* return or raise, the HTTP client has a timeout of 10 seconds,           *)
(* kd100_client.py line 114), so a scan that can take a step takes it.     *)
(***************************************************************************)
\* one scan with or without a limit, while the clock advances and the
\* importer inserts orders
ScanLiveStep == ScanStepOf("s1", {0, 1})

NextScanLive ==
    \/ ScanLiveStep
    \/ Tick
    \/ ImportInserts

SpecScanLive == InitScans /\ [][NextScanLive]_vars /\ WF_vars(ScanLiveStep)

\* C31: a scan that was started ends, and its status in logistics_tasks
\* becomes completed or failed
ScanTerminates ==
    (scan["s1"].status = "processing")
        ~> (scan["s1"].pc = "done" /\ scan["s1"].status \in {"completed", "failed"})

\* a scan that went through three orders, one inserted while it ran, with a
\* remote check without usable answer, one in transit and one signed, and
\* completed
ScanEndedAfterAllReplies ==
    /\ scan["s1"].status = "completed"
    /\ scan["s1"].seen = <<1, 2, 3>>
    /\ scan_orders[1].logistics_status_desc = "error"
    /\ scan_orders[2].logistics_status_desc = "in_transit"
    /\ scan_orders[3].logistics_status_desc = "signed"

\* the file the import of worker w reads, and the natural key of its row i
ImportFile(w) ==
    IF pc[w] = "orders" THEN payload[job[w]].orders_file
    ELSE payload[job[w]].aftersales_file

RowKey(w, i) == IF pc[w] = "orders" THEN ImportFile(w)[i].oid ELSE ImportFile(w)[i].aid

\* C32: while import_orders or import_aftersales runs, and when it returns,
\* the counters over the rows of the batches done so far satisfy
\* total + skipped = number of rows, created + updated = total, and skipped
\* is the number of rows without natural key
ImportCounters ==
    \A w \in Workers :
        (pc[w] \in {"orders", "aftersales"} /\ job[w] # 0) =>
            /\ stats[w].total + stats[w].skipped = pos[w]
            /\ stats[w].created + stats[w].updated = stats[w].total
            /\ stats[w].skipped
                  = Cardinality({i \in 1..pos[w] : ~HasKey(RowKey(w, i))})
            /\ pos[w] <= Len(ImportFile(w))

\* import_orders is about to return from a file of two batches with a row
\* without order number, an order that existed and one that did not
CountersOverTwoBatches ==
    /\ pc["w1"] = "orders"
    /\ job["w1"] # 0
    /\ pos["w1"] = Len(payload[job["w1"]].orders_file)
    /\ pos["w1"] > BATCH_SIZE
    /\ stats["w1"].skipped = 1
    /\ stats["w1"].created = 1
    /\ stats["w1"].updated = 1

\* C33: a step that removes an ImportJob or an ImportTask removes only those
\* of jobs that are completed or failed
PruneSparesLiveJobs ==
    [][ /\ \A j \in DOMAIN db.jobs \ DOMAIN db'.jobs :
              db.jobs[j].status \in {"completed", "failed"}
        /\ \A t \in DOMAIN db.tasks \ DOMAIN db'.tasks :
              t \in DOMAIN db.jobs => db.jobs[t].status \in {"completed", "failed"} ]_vars

\* C34: an ImportJob that is completed or failed and whose ImportTask is
\* stored has the status of its task
JobTaskAgree ==
    \A j \in DOMAIN db.jobs :
        (db.jobs[j].status \in {"completed", "failed"} /\ j \in DOMAIN db.tasks)
            => db.tasks[j].status = db.jobs[j].status

(***************************************************************************)
(* The writers of Order.is_signed: the scanner, the after-sale import and  *)
(* OrderService.sync_orders, beside an importer that inserts orders.      *)
(***************************************************************************)
\* latest_track.state of get_logistics_track: -1 stands for a call that
\* raises or returns an empty track_list, 0 is in transit, 3 is signed
TrackStates == {-1, 0, 3}

\* order_service.py lines 132-145: with a track the signed mark is assigned
\* from the state, whatever it was; onupdate sets updated_at of a changed row
SyncedOrder(row, state, now) ==
    LET synced == IF state = -1 THEN row
                  ELSE [row EXCEPT !.is_signed = (state = 3),
                                   !.sign_time = IF state = 3 THEN TRUE ELSE @,
                                   !.logistics_status_desc =
                                       IF state = 3 THEN "signed" ELSE "in_transit"]
    IN  IF synced = row THEN row ELSE [synced EXCEPT !.updated_at = now]

\* sync_orders (order_service.py lines 56-178) for one order of the page:
\* the order is loaded or created (lines 100-110), the fields of the
\* platform and the track are assigned, and the session is committed
SyncOrder ==
    /\ \E id \in 1..(Len(scan_orders) + 1), state \in TrackStates :
        /\ id <= MaxOrders
        /\ LET row == IF id <= Len(scan_orders) THEN scan_orders[id]
                      ELSE [NewOrder(LateOrderId(id), clock) EXCEPT !.logistics_code = ""]
               synced == SyncedOrder(row, state, clock)
               stored == IF id <= Len(scan_orders) THEN db
                         ELSE OrderUpsert(db, <<[ order_id |-> row.order_id,
                                                  order_status |-> 3,
                                                  create_time |-> TRUE, pay_time |-> TRUE,
                                                  province_name |-> "P1" ]>>)
           IN  /\ scan_orders' = IF id <= Len(scan_orders)
                                 THEN [scan_orders EXCEPT ![id] = synced]
                                 ELSE Append(scan_orders, synced)
               /\ db' = SignedColumn(stored, synced)
    /\ UNCHANGED <<faults, clock, scan, remote, not_scan_vars>>

\* the UPDATE of _process_aftersale_batch (excel_import.py lines 361-367)
\* for a return-refund row that names the order: unsigned orders are marked
ImportMarksSigned ==
    /\ \E id \in DOMAIN scan_orders :
        /\ ~scan_orders[id].is_signed
        /\ scan_orders' = [scan_orders EXCEPT ![id].is_signed = TRUE,
                                              ![id].updated_at = clock]
        /\ db' = SignedColumn(db, scan_orders'[id])
    /\ UNCHANGED <<faults, clock, scan, remote, not_scan_vars>>

NextSigned ==
    \/ ScanStepOf("s1", {0})
    \/ ImportInserts
    \/ ImportMarksSigned
    \/ SyncOrder

\* two shipped orders that were never checked
InitSigned ==
    /\ InitScan
    /\ scan_orders = <<NewOrder("A", 0), NewOrder("B", 0)>>

SpecSigned == InitSigned /\ [][NextSigned]_vars

\* C35: no step sets the is_signed of an order from true to false
SignedMonotonic ==
    [][ /\ \A id \in DOMAIN scan_orders :
              scan_orders[id].is_signed => scan_orders'[id].is_signed
        /\ \A o \in DOMAIN db.orders :
              db.orders[o].is_signed => db'.orders[o].is_signed ]_vars

(***************************************************************************)
(* The upsert of the order import on the columns the scanner writes.       *)
(***************************************************************************)
\* tracking_number of parse_express_info (kd100_client.py lines 278-305):
\* empty when the cell has no tracking number
ExpressCodes == {"", "T"}

\* an import that replaces the row of an order that exists
ReplaceScanOrder(row, r, code, now) ==
    [NewOrder(row.order_id, now) EXCEPT !.order_status = r.order_status,
                                        !.logistics_code = code]

\* ON CONFLICT (order_id) DO UPDATE SET (excel_import.py lines 138-155) on
\* the row of an order that exists: the columns of set_ take the values of
\* the record
UpsertScanOrder(row, r, code, now) ==
    [row EXCEPT !.order_status = r.order_status,
                !.logistics_code = code,
                !.updated_at = now]

\* _process_order_batch for a batch of one row of an order that exists: the
\* upsert, the replacement of the order's lines and the commit
ImportUpserts ==
    /\ \E row \in OrderRows, code \in ExpressCodes :
        /\ HasKey(row.oid)
        /\ ~OrderParseRaises(<<row>>)
        /\ ~OrderUpsertRaises(OrderRecords(<<row>>))
        /\ \E id \in DOMAIN scan_orders :
            /\ scan_orders[id].order_id = row.oid
            /\ scan_orders' = [scan_orders EXCEPT ![id] =
                                 UpsertScanOrder(@, OrderData(row), code, clock)]
        /\ db' = OrderBatchAfter(db, <<row>>, OrderBatchWrites(<<row>>))
    /\ UNCHANGED <<faults, clock, scan, remote, not_scan_vars>>

NextFrame ==
    \/ ScanStepOf("s1", {0})
    \/ Tick
    \/ ImportUpserts

SpecFrame == InitScan /\ [][NextFrame]_vars

\* C36: a step of the order import leaves is_signed, sign_time,
\* logistics_checked and logistics_status_desc of every stored order as
\* they were
ImportFrame ==
    [][ scan' = scan =>
          /\ \A id \in DOMAIN scan_orders :
                /\ scan_orders'[id].is_signed = scan_orders[id].is_signed
                /\ scan_orders'[id].sign_time = scan_orders[id].sign_time
                /\ scan_orders'[id].logistics_checked = scan_orders[id].logistics_checked
                /\ scan_orders'[id].logistics_status_desc
                      = scan_orders[id].logistics_status_desc
          /\ \A o \in DOMAIN db.orders :
                db'.orders[o].is_signed = db.orders[o].is_signed ]_vars

\* order A was checked by the scan and then imported again as not shipped
\* and without tracking number, and the signed order B was imported again
\* at a later time
ReimportedAfterCheck ==
    /\ scan_orders[1].logistics_checked
    /\ scan_orders[1].logistics_status_desc = "in_transit"
    /\ scan_orders[1].order_status = 2
    /\ scan_orders[1].logistics_code = ""
    /\ scan_orders[2].is_signed
    /\ scan_orders[2].sign_time
    /\ scan_orders[2].updated_at = 1

\* C37: every entry of the result of calculate_sku_stats has
\* quality_return_count <= signed_count and a quality_return_rate between 0
\* and 1, which is 0 when signed_count is 0
QualityBounded ==
    \A code \in DOMAIN calculate_sku_stats(db) :
        LET row == calculate_sku_stats(db)[code]
        IN  /\ row.quality_return_count <= row.signed_count
            /\ row.quality_return_rate >= 0
            /\ row.quality_return_rate <= RATE_UNIT
            /\ row.signed_count = 0 => row.quality_return_rate = 0

\* every row of order o in the file yields a line
AllRowsHaveLines(file, o) == \A i \in 1..Len(file) : file[i].oid = o => HasLine(file[i])

\* C38: when import_orders has gone through a file, the stored lines of
\* every order whose rows in the file all carry a merchant code are the
\* lines the file lists for the order, in whatever batches its rows fell
FileLinesPersisted ==
    \A w \in Workers :
        (pc[w] = "orders" /\ job[w] # 0 /\ pos[w] >= Len(payload[job[w]].orders_file)) =>
            LET file == payload[job[w]].orders_file
            IN  \A o \in BatchOrderIds(file) :
                    AllRowsHaveLines(file, o) =>
                        db.order_skus[o] = LinesOf(SkuRecords(file), o)

(***************************************************************************)
(* One job of type all with its two files, on an empty store and on stores *)
(* that earlier imports filled.                                            *)
(***************************************************************************)
\* the order files of the job: at most one row, or an order A and an order B
AllOrderFiles ==
    {f \in OrderFiles : Len(f) <= 1}
    \cup {<< OrderRow("A", "shipped", "P2", RawX, TRUE, "1", TRUE),
             OrderRow("B", "shipped", "P1", RawX, TRUE, "1", TRUE) >>}

FirstAll ==
    /\ payload = EmptyFn
    /\ \E of \in AllOrderFiles, af \in AfterSaleFiles : upload_all_and_calculate(of, af)

NextAll ==
    \/ FirstAll
    \/ WorkerStep("w1")

SpecAll == InitImport /\ [][NextAll]_vars

\* job j of type all becomes completed
AllJobCompletes(j) ==
    /\ Completed(db', j)
    /\ ~Completed(db, j)
    /\ payload[j].task_type = "all"

\* row i of the after-sale file of job j is a return-refund row that names
\* an order
ReturnRefundRow(j, i) ==
    /\ aftersale_type(payload[j].aftersales_file[i].ty) = 1
    /\ HasKey(payload[j].aftersales_file[i].oid)

\* C39 as stated: when a job of type all becomes completed, every stored
\* order that a return-refund row of its after-sale file names is signed
AllJobSignsEveryReturn ==
    [][ \A j \in JobIds : AllJobCompletes(j) =>
          \A i \in 1..Len(payload[j].aftersales_file) :
              (/\ ReturnRefundRow(j, i)
               /\ payload[j].aftersales_file[i].oid \in DOMAIN db'.orders)
                  => db'.orders[payload[j].aftersales_file[i].oid].is_signed ]_vars

\* C39: when a job of type all becomes completed, every stored order that a
\* return-refund row with an after-sale number of its after-sale file names
\* is signed
AllJobSignsReturns ==
    [][ \A j \in JobIds : AllJobCompletes(j) =>
          \A i \in 1..Len(payload[j].aftersales_file) :
              (/\ ReturnRefundRow(j, i)
               /\ HasKey(payload[j].aftersales_file[i].aid)
               /\ payload[j].aftersales_file[i].oid \in DOMAIN db'.orders)
                  => db'.orders[payload[j].aftersales_file[i].oid].is_signed ]_vars

\* a job of type all on the empty store is completed: its order file brought
\* order B, and the return-refund row of B in the second batch of its
\* after-sale file marked it
AllJobMarkedNewOrder ==
    /\ Completed(db, 1)
    /\ payload[1].task_type = "all"
    /\ DOMAIN db.orders = {"B"}
    /\ db.orders["B"].is_signed
    /\ Len(payload[1].aftersales_file) = 3
    /\ payload[1].aftersales_file[3].oid = "B"
    /\ payload[1].aftersales_file[3].aid = "R2"

(***************************************************************************)
(* clean_sku_code on merchant codes of any text: the import of one row     *)
(* into the empty store, and the clean-up of the codes of a store written  *)
(* before sku_code_raw existed (init_db).                                  *)
(***************************************************************************)
CodeChars == {"n", "a", "(", ")", "{", "}", SP, TAB}
\* the longest merchant code
MaxCodeLen == 5
CodeTexts == SeqsUpTo(CodeChars, MaxCodeLen)

\* a line written before sku_code_raw existed: the code is the text of the file
HistoricLine(code) == [sku_code |-> code, sku_code_raw |-> NullCode, quantity |-> 1]

HistoricStore(code) ==
    [OrderUpsert(EmptyStore, OrderRecords(<<OrderRow("B", "shipped", "P1", code, TRUE, "1", TRUE)>>))
        EXCEPT !.order_skus["B"] = <<HistoricLine(code)>>]

InitClean ==
    /\ InitWorkers
    /\ scan_orders = <<>>
    /\ payload = EmptyFn
    /\ db \in {EmptyStore} \cup {HistoricStore(code) : code \in CodeTexts \ {<<>>}}

\* _process_order_batch and _process_sku_batch for one row of order A whose
\* merchant code is the text x (excel_import.py lines 105-121, 174-187)
ImportedCode(v, x) ==
    LET v1 == OrderUpsert(v, OrderRecords(<<OrderRow("A", "shipped", "P2", x, TRUE, "1", TRUE)>>))
        sku_code_raw == Strip(RemoveChar(Strip(x), TAB))
        sku_code == clean_sku_code(sku_code_raw)
    IN  IF Strip(x) # <<>> /\ Strip(x) # <<"n", "a", "n">> /\ sku_code # <<>>
        THEN [v1 EXCEPT !.order_skus["A"] =
                 <<[sku_code |-> sku_code, sku_code_raw |-> sku_code_raw, quantity |-> 1]>>]
        ELSE v1

ImportCode ==
    /\ db = EmptyStore
    /\ \E x \in CodeTexts : db' = ImportedCode(db, x)
    /\ UNCHANGED <<tx, dirty, pc, sel, job, pos, stats, exc, faults, payload, wins, losses,
                   snap, raised, log, computed, manual, stop_event, scan_orders, clock,
                   scan, remote>>

RECURSIVE TrimSpaces(_)
\* trim() of SQLite: the spaces at both ends
TrimSpaces(s) ==
    IF s = <<>> THEN s
    ELSE IF Head(s) = SP THEN TrimSpaces(Tail(s))
    ELSE IF s[Len(s)] = SP THEN TrimSpaces(SubSeq(s, 1, Len(s) - 1))
    ELSE s

\* the WHERE clause of the second statement of _backfill_table
BackfillSelects(code) ==
    \/ \E i \in 1..Len(code) : IsOpen(code[i])
    \/ code # TrimSpaces(code)

\* _backfill_table for one row: the raw text is filled in, and the code is
\* replaced by the cleaned code unless that is empty or the same
BackfilledLine(l) ==
    [l EXCEPT !.sku_code_raw = IF @ \in {NullCode, <<>>} THEN l.sku_code ELSE @,
              !.sku_code = IF /\ BackfillSelects(@)
                              /\ clean_sku_code(@) # <<>>
                              /\ clean_sku_code(@) # @
                           THEN clean_sku_code(@) ELSE @]

\* init_db, the one-time normalisation of order_skus (database.py lines 82-127)
Backfill ==
    /\ db' = [db EXCEPT !.order_skus =
                 [o \in OrderIds |-> [i \in 1..Len(db.order_skus[o]) |->
                                         BackfilledLine(db.order_skus[o][i])]]]
    /\ UNCHANGED <<tx, dirty, pc, sel, job, pos, stats, exc, faults, payload, wins, losses,
                   snap, raised, log, computed, manual, stop_event, scan_orders, clock,
                   scan, remote>>

NextClean ==
    \/ ImportCode
    \/ Backfill

SpecClean == InitClean /\ [][NextClean]_vars

\* the text holds an opening parenthesis with a closing one after it
HasGroup(s) == \E i, j \in 1..Len(s) : i < j /\ IsOpen(s[i]) /\ IsClose(s[j])

\* no group, no tab, no whitespace at the ends, no two whitespaces in a row
Tidy(s) ==
    /\ ~HasGroup(s)
    /\ \A i \in 1..Len(s) : s[i] # TAB
    /\ s = Strip(s)
    /\ \A i \in 1..Len(s) - 1 : ~(IsSpace(s[i]) /\ IsSpace(s[i + 1]))

\* C40 as stated: for every raw code x the store holds, clean_sku_code of
\* clean_sku_code(x) is clean_sku_code(x), and clean_sku_code(x) has no
\* parenthesized group, no tab and no leading, trailing or repeated whitespace
CleanIdempotent ==
    \A o \in OrderIds : \A i \in 1..Len(db.order_skus[o]) :
        LET x == db.order_skus[o][i].sku_code_raw
        IN  x # NullCode =>
              /\ clean_sku_code(clean_sku_code(x)) = clean_sku_code(x)
              /\ Tidy(clean_sku_code(x))

=============================================================================
